---- MODULE Spec2Model ----
(***************************************************************************)
(* CodeMiniMapWidget (src/PySide6TK/code_minimap.py): the minimap's state, *)
(* its event handlers and its geometry arithmetic.                         *)
(*                                                                         *)
(* The attached QPlainTextEdit is an external object.  The model keeps the *)
(* part of it the widget reads (block count, vertical scroll bar, first    *)
(* visible block) for the editor the widget currently references; an       *)
(* editor handed to set_editor arrives in an arbitrary state.              *)
(*                                                                         *)
(* Every handler leaves, next to the widget state, the record of what it   *)
(* did: evt (which handler ran, with which input), scrollCmds (the         *)
(* arguments of the vbar.setValue calls it made) and drawCmds (what        *)
(* paintEvent painted).                                                    *)
(*                                                                         *)
(* KeyShortcutManager (src/PySide6TK/shortcuts.py): the registry of        *)
(* shortcuts and the QShortcut objects it creates; _ShortcutRow and        *)
(* _KeyCaptureDialog, the row of the shortcut editor and the dialog that   *)
(* captures a key for it.                                                  *)
(*                                                                         *)
(* ColumnBrowser (src/PySide6TK/column_browser.py): the columns, the       *)
(* tokens selected in them and the layout that shows them.                 *)
(*                                                                         *)
(* CodeEditor (src/PySide6TK/code_editor.py): the document as blocks of    *)
(* text laid out in visual lines, the text cursor, and the indentation of  *)
(* lines by Tab and Shift+Tab.                                             *)
(*                                                                         *)
(* UsageBar, CPUUsageBar, MemoryUsageBar (src/PySide6TK/status.py) and     *)
(* _UsageBar (src/PySide6TK/resource_monitor.py): the stored percentage.   *)
(***************************************************************************)
EXTENDS Integers, Sequences, FiniteSets, TLC

\* ----- bounds of the widget's state machine (Spec) -------------------------
MaxHeight == 6
MaxBlocks == 3
MaxLines == 2
NumEditors == 2

\* ----- bounds of the geometry inputs (SpecPaint, SpecScroll) --------------
GeomMaxHeight == 9
GeomMaxLineHeight == 3
GeomMaxBlocks == 5
GeomMaxLines == 2

\* ----- bounds of the row inputs (SpecRow) ---------------------------------
MaxTextLen == 3
MaxRuns == 1
MaxWidth == 9

\* ----- bounds of the guarded edge cases (SpecEdge) ------------------------
EdgeMaxHeight == 5
EdgeMaxLineHeight == 2
EdgeMaxBlocks == 2
EdgeMaxLines == 2

\* ----- bounds of the signal connections (SpecSubs) ------------------------
MaxConnections == 2

\* ----- bounds of the shortcut manager (SpecManager) -----------------------
NumActions == 2
NumKeys == 2
MaxObjects == 3

\* ----- bounds of the shortcut editor's row (SpecDialog) --------------------
DialogMaxObjects == 2

\* ----- bounds of the column browser (SpecBrowser) -------------------------
MaxLabels == 2
MaxColumns == 3

\* ----- bounds of the code editor (SpecKeys, SpecIndent) -------------------
MaxDocBlocks == 2
MaxLineLen == 3
ViewportCols == 2

\* ----- bounds of the usage bars (SpecBar) ---------------------------------
MaxHalves == 3
MaxTime == 3

\* ----- bound of the segment inputs (SpecSeg) ------------------------------
SegMaxTextLen == 10

\* ----- program constants --------------------------------------------------
DefaultLineHeight == 3
DefaultMargin == 2
MinimumWidth == 80
MaximumWidth == 120

None == 0
Editors == 1..NumEditors
Buttons == {"left", "right"}
PointerYs == (0 - 1)..(MaxHeight + 1)
GeomPointerYs == (0 - 1)..(GeomMaxHeight + 1)

VARIABLES
    editor,       \* self.editor: None or the attached editor
    dragging,     \* self._dragging
    cursor,       \* the widget's cursor shape (setCursor / unsetCursor)
    line_height,  \* self.line_height
    height,       \* self.height(), set by the host's layout
    doc,          \* state of the attached editor (NoDoc when none)
    pending,      \* a repaint was requested by self.update()
    evt,          \* the handler that ran last, its input, _dragging before it
    scrollCmds,   \* vbar.setValue arguments issued by that handler
    drawCmds,     \* what that handler painted
    width,        \* self.width(), set by the host's layout
    margin,       \* self.margin
    content,      \* text length and style runs of the attached editor's blocks
    subs,         \* connections from the followed editors' signals to the minimap
    shortcuts,    \* KeyShortcutManager.shortcuts: action name -> _Shortcut
    objects,      \* the QShortcut objects the manager has created, oldest first
    call,         \* the manager method that ran last, its arguments and outcome
    capture,      \* the _KeyCaptureDialog of the row: exec state, new_key, last event
    row,          \* the _ShortcutRow followed: le_act, le_key, what Edit did last
    tokens,       \* ColumnBrowser.tokens: the dict's items in insertion order
    columns,      \* ColumnBrowser.columns: the _CBList objects, left to right
    hlayout_columns,  \* the _CBList widgets ColumnBrowser.hlayout_columns holds
    browserCall,  \* the ColumnBrowser method that ran last and its arguments
    document,     \* CodeEditor.document(): the text of its blocks
    textCursor,   \* CodeEditor.textCursor(): anchor and position
    lineWrap,     \* CodeEditor.lineWrapMode()
    keyEvt,       \* the CodeEditor method that ran last, its input and effects
    bar,          \* a usage bar: its class, percentage and last system times
    barCall       \* the usage bar method that ran last and its argument

vars == <<editor, dragging, cursor, line_height, height, doc, pending,
          evt, scrollCmds, drawCmds, width, margin, content, subs,
          shortcuts, objects, call, capture, row,
          tokens, columns, hlayout_columns, browserCall,
          document, textCursor, lineWrap, keyEvt, bar, barCall>>

\* what the widget's handlers never assign
canvasVars == <<width, margin, content>>

\* the state of KeyShortcutManager
managerVars == <<shortcuts, objects, call>>

\* the state of the shortcut editor's row and its key capture dialog
dialogVars == <<capture, row>>

\* the state of ColumnBrowser
browserVars == <<tokens, columns, hlayout_columns, browserCall>>

\* the state of CodeEditor
codeVars == <<document, textCursor, lineWrap, keyEvt>>

\* the state of a usage bar
barVars == <<bar, barCall>>

\* the state of the widgets next to the minimap and the manager
restVars == <<dialogVars, browserVars, codeVars, barVars>>

\* the state of CodeMiniMapWidget and its editor
minimapVars == <<editor, dragging, cursor, line_height, height, doc, pending,
                 evt, scrollCmds, drawCmds, width, margin, content, subs>>

\* ----- arithmetic helpers -------------------------------------------------
Max(a, b) == IF a >= b THEN a ELSE b
Min(a, b) == IF a <= b THEN a ELSE b
Abs(a) == IF a >= 0 THEN a ELSE 0 - a

RECURSIVE Pow2(_)
Pow2(n) == IF n <= 0 THEN 1 ELSE 2 * Pow2(n - 1)

RECURSIVE Log2Floor(_)
Log2Floor(k) == IF k < 2 THEN 0 ELSE 1 + Log2Floor(k \div 2)

(* Python's float is an IEEE-754 double.  a / b is the exact quotient      *)
(* rounded to 53 significant bits (nearest, ties to even).  With a/b       *)
(* scaled into [1, 2) as a1/b1, the quotient bits come from binary long    *)
(* division; the remainder after n bits is ((a1 - b1) * 2^n) mod b1.       *)

\* <<a1, b1, p>> with a1/b1 = (a/b) / 2^p and 1 <= a1/b1 < 2   (a, b >= 1)
RECURSIVE FloatScale(_, _, _)
FloatScale(a, b, p) ==
    IF a < b THEN FloatScale(2 * a, b, p - 1)
    ELSE IF a >= 2 * b THEN FloatScale(a, 2 * b, p + 1)
    ELSE <<a, b, p>>

\* 2^n mod b
RECURSIVE PowMod2(_, _)
PowMod2(n, b) ==
    IF n = 0 THEN 1 % b
    ELSE LET h == PowMod2(n \div 2, b)
         IN  (h * h * (IF n % 2 = 1 THEN 2 ELSE 1)) % b

MantissaBits == 52

(* int((a / b) * c) for naturals a, c and b >= 1, as Python evaluates it:   *)
(* q = fl(a/b), then fl(q * c), then truncation.  When a*c/b is not an      *)
(* integer, or q is exact or rounded up, the result is floor(a*c/b).  When  *)
(* a*c/b is an integer k and q was rounded down by d = (r/b1)*2^(p-52),     *)
(* q*c = k - d*c rounds back to k only if d*c is at most half the spacing   *)
(* of the doubles just below k; otherwise the result is k - 1.              *)
IntMulRatio(a, b, c) ==
    IF a = 0 \/ c = 0 THEN 0
    ELSE LET s == FloatScale(a, b, 0)
             b1 == s[2]
             p == s[3]
             r0 == s[1] - b1
             r == (r0 * PowMod2(MantissaBits, b1)) % b1
             rPrev == (r0 * PowMod2(MantissaBits - 1, b1)) % b1
             lastBit == IF 2 * rPrev >= b1 THEN 1 ELSE 0
             up == (2 * r > b1) \/ (2 * r = b1 /\ lastBit = 1)
             k == (a * c) \div b
             m == Log2Floor(k)
             e == IF k = Pow2(m) THEN 2 ELSE 1
         IN  IF (a * c) % b # 0 \/ up \/ r = 0 THEN k
             ELSE IF r * c * Pow2(Max(0, p) + e) <= b1 * Pow2(m + Max(0, 0 - p))
                  THEN k ELSE k - 1

(* The difference of two such quotients and its product are followed bit   *)
(* by bit.  A double is a pair [m, e]: the significand m, a sequence of     *)
(* bits with the most significant first, and the value m * 2^(-e).          *)
Zeros(n) == [i \in 1..n |-> 0]

RECURSIVE StripZeros(_)
StripZeros(bits) ==
    IF bits # <<>> /\ Head(bits) = 0 THEN StripZeros(Tail(bits)) ELSE bits

\* bits + 1, from position i down
RECURSIVE IncBits(_, _)
IncBits(bits, i) ==
    IF i = 0 THEN <<1>> \o bits
    ELSE IF bits[i] = 0 THEN [bits EXCEPT ![i] = 1]
    ELSE IncBits([bits EXCEPT ![i] = 0], i - 1)

SignificandBits == 53

\* round to nearest, ties to even: at most SignificandBits bits are kept;
\* sticky says that the exact value has further non-zero bits
RoundDouble(bits, e, sticky) ==
    IF Len(bits) <= SignificandBits THEN [m |-> bits, e |-> e]
    ELSE LET kept == SubSeq(bits, 1, SignificandBits)
             guard == bits[SignificandBits + 1]
             rest == sticky \/ \E i \in (SignificandBits + 2)..Len(bits) : bits[i] = 1
             up == guard = 1 /\ (rest \/ kept[SignificandBits] = 1)
         IN  [m |-> IF up THEN IncBits(kept, SignificandBits) ELSE kept,
              e |-> e - (Len(bits) - SignificandBits)]

\* the first n bits of the binary expansion of r / b, r < b
RECURSIVE Expansion(_, _, _)
Expansion(r, b, n) ==
    IF n = 0 THEN <<>>
    ELSE <<IF 2 * r >= b THEN 1 ELSE 0>> \o Expansion((2 * r) % b, b, n - 1)

\* the zero bits between the binary point and the first one bit of a / b
RECURSIVE LeadingZeros(_, _)
LeadingZeros(a, b) == IF 2 * a >= b THEN 0 ELSE 1 + LeadingZeros(2 * a, b)

\* the double a / b for 0 <= a <= b
Quotient(a, b) ==
    IF a = 0 THEN [m |-> <<>>, e |-> 0]
    ELSE IF a = b THEN [m |-> <<1>>, e |-> 0]
    ELSE LET z == LeadingZeros(a, b)
             n == z + SignificandBits + 1
         IN  RoundDouble(SubSeq(Expansion(a, b, n), z + 1, n), n,
                         (a * PowMod2(n, b)) % b # 0)

\* x - y on equally long bit sequences, x >= y, from position i down
RECURSIVE SubBits(_, _, _, _)
SubBits(x, y, i, borrow) ==
    IF i = 0 THEN <<>>
    ELSE LET d == x[i] - y[i] - borrow
         IN  IF d < 0 THEN SubBits(x, y, i - 1, 1) \o <<d + 2>>
             ELSE SubBits(x, y, i - 1, 0) \o <<d>>

\* the double x - y for doubles x >= y >= 0
Difference(x, y) ==
    LET e == Max(x.e, y.e)
        xs == x.m \o Zeros(e - x.e)
        ys == y.m \o Zeros(e - y.e)
        n == Max(Len(xs), Len(ys))
        xp == Zeros(n - Len(xs)) \o xs
        yp == Zeros(n - Len(ys)) \o ys
    IN  RoundDouble(StripZeros(SubBits(xp, yp, n, 0)), e, FALSE)

RECURSIVE ToBits(_)
ToBits(n) == IF n = 0 THEN <<>> ELSE ToBits(n \div 2) \o <<n % 2>>

\* bits * c + carry, from position i down
RECURSIVE MulBits(_, _, _, _)
MulBits(bits, c, i, carry) ==
    IF i = 0 THEN ToBits(carry)
    ELSE LET t == bits[i] * c + carry
         IN  IF t % 2 = 0 THEN MulBits(bits, c, i - 1, t \div 2) \o <<0>>
             ELSE MulBits(bits, c, i - 1, t \div 2) \o <<1>>

\* the double x * c for a double x >= 0 and a natural c
Product(x, c) == RoundDouble(StripZeros(MulBits(x.m, c, Len(x.m), 0)), x.e, FALSE)

RECURSIVE BitsValue(_)
BitsValue(bits) ==
    IF bits = <<>> THEN 0
    ELSE 2 * BitsValue(SubSeq(bits, 1, Len(bits) - 1)) + bits[Len(bits)]

\* int(x) for a double x >= 0
Truncation(x) ==
    IF Len(x.m) - x.e <= 0 THEN 0
    ELSE IF x.e >= 0 THEN BitsValue(SubSeq(x.m, 1, Len(x.m) - x.e))
    ELSE BitsValue(x.m \o Zeros(0 - x.e))

(* int((a1 / b - a0 / b) * c) for naturals a0 < a1 <= b and c >= 1.  The    *)
(* three roundings move the product by less than 2^(-40), so when           *)
(* (a1 - a0) * c / b is no integer the result is its floor.                 *)
IntDiffRatio(a1, a0, b, c) ==
    IF ((a1 - a0) * c) % b # 0 THEN ((a1 - a0) * c) \div b
    ELSE Truncation(Product(Difference(Quotient(a1, b), Quotient(a0, b)), c))

\* ----- the attached editor (QPlainTextEdit, no word wrap) -----------------
(* blocks: document().blockCount(); lines: text lines that fit the         *)
(* editor's viewport entirely; partial: one more line is partly visible;    *)
(* value: verticalScrollBar().value(), which QPlainTextEdit keeps equal to  *)
(* the number of the first visible block.                                   *)
pageStep(d) == Min(d.blocks, d.lines)
maximum(d) == d.blocks - pageStep(d)

DocsUpTo(maxBlocks, maxLines) ==
    { d \in [blocks : 1..maxBlocks, lines : 1..maxLines,
             partial : BOOLEAN, value : 0..maxBlocks] :
        d.value <= maximum(d) }

Docs == DocsUpTo(MaxBlocks, MaxLines)

NoDoc == [blocks |-> 1, lines |-> 1, partial |-> FALSE, value |-> 0]

\* QAbstractSlider.setValue: the value is forced into [minimum, maximum]
setValue(d, v) == [d EXCEPT !.value = Max(0, Min(maximum(d), v))]

\* ----- geometry (_usable_metrics) -----------------------------------------
inner_w == Max(1, width - 2 * margin)

\* variant of max_lines: a last row that fits only partly is counted
max_lines_partial == Max(0, (height + line_height - 1) \div line_height)

max_lines == Max(0, height \div line_height)
usable_h == max_lines * line_height

\* (first_block_index, visible_block_count, total_block_count)
_visible_block_span ==
    IF editor = None \/ doc.blocks = 0 THEN <<0, 0, 0>>
    ELSE <<doc.value,
           Min(doc.blocks - doc.value, doc.lines + (IF doc.partial THEN 1 ELSE 0)),
           doc.blocks>>

\* ----- _draw_lines --------------------------------------------------------
\* variant of block_idx: the row index is scaled by max_lines, not max_lines - 1
block_idx_short(i, total_blocks) ==
    LET denom == Max(1, total_blocks - 1)
    IN  Min(total_blocks - 1, (i * denom) \div Max(1, max_lines))

\* Python's round(p / q) for naturals p and q >= 1: nearest, ties to even
Round(p, q) ==
    LET fl == p \div q
        rem2 == 2 * (p % q)
    IN  IF rem2 < q THEN fl
        ELSE IF rem2 > q THEN fl + 1
        ELSE IF fl % 2 = 0 THEN fl ELSE fl + 1

\* variant of block_idx: the quotient is rounded to nearest, not truncated
block_idx_nearest(i, total_blocks) ==
    LET denom == Max(1, total_blocks - 1)
    IN  Min(total_blocks - 1, Round(i * denom, Max(1, max_lines - 1)))

\* the document block painted on minimap row i (0-based)
block_idx(i, total_blocks) ==
    LET denom == Max(1, total_blocks - 1)
    IN  Min(total_blocks - 1, (i * denom) \div Max(1, max_lines - 1))

\* ----- the bar of one block (_draw_lines, lines 163-184) -------------------
RunColors == {"foreground", "invalid"}

\* QTextLayout.FormatRange: start, length and the foreground colour's validity
Runs == [start : 0..MaxTextLen, length : (0 - 1)..MaxTextLen, color : RunColors]

RECURSIVE SeqsUpTo(_, _)
SeqsUpTo(S, n) ==
    IF n = 0 THEN {<<>>}
    ELSE LET shorter == SeqsUpTo(S, n - 1)
         IN  shorter \cup { Append(q, x) : q \in { t \in shorter : Len(t) = n - 1 }, x \in S }

\* block.text() by its length, block.layout().formats() as a list of runs
Contents == [text_len : 0..MaxTextLen, runs : SeqsUpTo(Runs, MaxRuns)]

\* a line of text the highlighter gave no format
PlainLine == [text_len |-> 1, runs |-> <<>>]

\* variant of run_x: the ratio is mapped onto the whole width, margins included
run_x_outer(run, text_len) == margin + IntMulRatio(run.start, text_len, width)

\* x = self.margin + int(x0_ratio * inner_w), x0_ratio = max(0.0, run.start / text_len)
run_x(run, text_len) == margin + IntMulRatio(run.start, text_len, inner_w)

(* w = max(1, int((x1_ratio - x0_ratio) * inner_w)) with                    *)
(* x1_ratio = min(1.0, (run.start + run.length) / text_len).  A run that    *)
(* ends at or before its start has a difference <= 0, which truncates to a  *)
(* value <= 0.                                                              *)
run_w(run, text_len) ==
    LET end == Min(run.start + run.length, text_len)
    IN  IF end <= run.start THEN 1
        ELSE Max(1, IntDiffRatio(end, run.start, text_len, inner_w))

\* color = run.format.foreground().color(), '#666' when it is not valid
run_color(run) == IF run.color = "invalid" THEN "#666" ELSE run.color

\* the fillRect calls of "for run in runs": runs of length <= 0 are skipped
RECURSIVE run_segments(_, _)
run_segments(runs, text_len) ==
    IF runs = <<>> THEN <<>>
    ELSE LET run == Head(runs)
             rest == run_segments(Tail(runs), text_len)
         IN  IF run.length <= 0 THEN rest
             ELSE <<[x |-> run_x(run, text_len), w |-> run_w(run, text_len),
                     color |-> run_color(run)]>> \o rest

\* the segments painted for a block: each fillRect's x, width and colour
block_segments(c) ==
    IF c.text_len = 0 THEN <<[x |-> margin, w |-> inner_w, color |-> "#2a2a2a"]>>
    ELSE IF c.runs # <<>> THEN run_segments(c.runs, Max(1, c.text_len))
    ELSE <<[x |-> margin, w |-> inner_w, color |-> "#666"]>>

\* one entry per painted row: its y, the height of its bar, the block whose
\* bar is painted there and the bar's segments
_draw_lines ==
    LET total_blocks == doc.blocks
    IN  IF total_blocks <= 0 \/ max_lines <= 0 THEN <<>>
        ELSE [r \in 1..max_lines |->
                [y |-> (r - 1) * line_height,
                 h |-> line_height - 1,
                 block |-> block_idx(r - 1, total_blocks),
                 segs |-> block_segments(content)]]

\* ----- _draw_view_area ----------------------------------------------------
\* variant of view_y_top: the denominator is total_blocks, not total_blocks - 1
view_y_top_drift(block, total_blocks) ==
    IntMulRatio(block, Max(1, total_blocks), usable_h - line_height)

\* minimap y of a block index: int((block / denom) * (usable_h - line_height))
view_y_top(block, total_blocks) ==
    IntMulRatio(block, Max(1, total_blocks - 1), usable_h - line_height)

\* variant of view_rect_y: y_top is not kept 2 pixels above the bottom
view_rect_y_unclamped(y_top) == Max(0, y_top)

\* y = max(0, min(y_top, usable_h - 2))
view_rect_y(y_top) == Max(0, Min(y_top, usable_h - 2))

\* <<>> when nothing is drawn, otherwise one rectangle [x, y, w, h]
_draw_view_area ==
    IF editor = None \/ usable_h <= 0 THEN <<>>
    ELSE LET span == _visible_block_span
             first_idx == span[1]
             visible_count == span[2]
             total_blocks == span[3]
         IN  IF total_blocks <= 0 \/ visible_count <= 0 THEN <<>>
             ELSE LET y_top == view_y_top(first_idx, total_blocks)
                      last_idx == Min(total_blocks - 1,
                                      first_idx + Max(1, visible_count) - 1)
                      y_bottom == view_y_top(last_idx, total_blocks) + line_height
                      y == view_rect_y(y_top)
                      h == Max(2, Min(y_bottom - y_top, usable_h - y))
                  IN  <<[x |-> margin, y |-> y, w |-> inner_w - 1, h |-> h]>>

\* ----- click + dragging ---------------------------------------------------
_viewport_box_height ==
    LET page == Max(1, pageStep(doc))
        maxi == Max(0, maximum(doc))
        total == IF page + maxi # 0 THEN page + maxi ELSE 1
    IN  Max(2, IntMulRatio(page, total, usable_h))

\* variant of centered_y2: the whole box height is subtracted, not half of it
centered_y2_whole(y) == 2 * y - 2 * _viewport_box_height

\* twice (y - self._viewport_box_height() / 2.0)
centered_y2(y) == 2 * y - _viewport_box_height

(* The setValue calls _scroll_to_minimap_y(y, center=True) makes: none, or  *)
(* one with argument int((y' / usable_h) * total), y' = y - box/2.0 clamped *)
(* into [0, usable_h].  y' is a multiple of 1/2 and is kept doubled.        *)
_scroll_to_minimap_y(y) ==
    IF editor = None THEN <<>>
    ELSE LET page == Max(1, pageStep(doc))
             maxi == Max(0, maximum(doc))
             total == page + maxi
         IN  IF total <= 0 \/ usable_h <= 0 THEN <<>>
             ELSE LET y2 == centered_y2(y)
                      c2 == Max(0, Min(2 * usable_h, y2))
                  IN  <<IntMulRatio(c2, 2 * usable_h, total)>>

\* ----- the divisors each method divides by, when it gets that far ---------
\* variant of _draw_lines_divisors: the row scale is max_lines - 1, unguarded
_draw_lines_divisors_unguarded ==
    IF doc.blocks <= 0 THEN {}
    ELSE {line_height} \cup (IF max_lines <= 0 THEN {} ELSE {max_lines - 1})

(* _draw_lines: self.height() // self.line_height, then for every row       *)
(* i * denom / max(1, max_lines - 1), then for a block with text and runs   *)
(* run.start / text_len with text_len = max(1, len(text)) for each run of   *)
(* positive length.                                                         *)
_draw_lines_divisors ==
    IF doc.blocks <= 0 THEN {}
    ELSE {line_height} \cup
         (IF max_lines <= 0 THEN {}
          ELSE {Max(1, max_lines - 1)} \cup
               (IF /\ content.text_len > 0
                   /\ \E k \in DOMAIN content.runs : content.runs[k].length > 0
                THEN {Max(1, content.text_len)} ELSE {}))

\* _draw_view_area: self.height() // self.line_height and first_idx / denom
_draw_view_area_divisors ==
    IF editor = None THEN {}
    ELSE {line_height} \cup
         (IF usable_h <= 0 \/ _visible_block_span[3] <= 0 \/ _visible_block_span[2] <= 0
          THEN {}
          ELSE {Max(1, _visible_block_span[3] - 1)})

\* _viewport_box_height: page / total, and _usable_metrics' // line_height
_viewport_box_height_divisors ==
    LET page == Max(1, pageStep(doc))
        maxi == Max(0, maximum(doc))
    IN  {IF page + maxi # 0 THEN page + maxi ELSE 1, line_height}

\* _scroll_to_minimap_y: _usable_metrics, _viewport_box_height() / 2.0 and
\* y / float(usable_h)
_scroll_to_minimap_y_divisors ==
    IF editor = None \/ Max(1, pageStep(doc)) + Max(0, maximum(doc)) <= 0 THEN {}
    ELSE {line_height} \cup
         (IF usable_h <= 0 THEN {}
          ELSE _viewport_box_height_divisors \cup {2, usable_h})

\* the editor after the setValue calls of cmds
Scrolled(d, cmds) == IF cmds = <<>> THEN d ELSE setValue(d, cmds[1])

\* ----- signal connections -------------------------------------------------
Signals == {"textChanged", "valueChanged", "updateRequest"}

\* no connection from any signal of the editors in E
Unconnected(E) ==
    [e \in E |-> [textChanged |-> 0, valueChanged |-> 0, updateRequest |-> 0]]

\* signal.connect(slot): one more connection (editors not followed keep none)
connect(s, e, sig) ==
    IF e \in DOMAIN s THEN [s EXCEPT ![e][sig] = @ + 1] ELSE s

(* The try block of set_editor: textChanged.disconnect(self.update), then   *)
(* valueChanged.disconnect(self.update).  disconnect raises when there is   *)
(* no such connection; the except clause swallows that and the rest of the  *)
(* block is skipped.                                                        *)
disconnect_update(s, e) ==
    IF e \notin DOMAIN s \/ s[e].textChanged = 0 THEN s
    ELSE LET s1 == [s EXCEPT ![e].textChanged = @ - 1]
         IN  IF s1[e].valueChanged = 0 THEN s1
             ELSE [s1 EXCEPT ![e].valueChanged = @ - 1]

\* the connections __init__ makes when it is given editor e
connect_init(s, e) ==
    IF e = None THEN s
    ELSE connect(connect(s, e, "textChanged"), e, "valueChanged")

\* the connections set_editor(e) leaves
connect_set_editor(s, e) ==
    LET s1 == IF editor # None THEN disconnect_update(s, editor) ELSE s
    IN  IF e = None THEN s1
        ELSE connect(connect(connect(s1, e, "updateRequest"), e, "textChanged"),
                     e, "valueChanged")

\* ----- handler records ----------------------------------------------------
\* again: the handler is paintEvent and the handler before it was paintEvent
Event(kind, button, y) ==
    [kind |-> kind, button |-> button, y |-> y, drag0 |-> dragging,
     again |-> (kind = "paint" /\ evt.kind = "paint")]

NoDraw == [bg |-> FALSE, rows |-> <<>>, rect |-> <<>>]

\* ===== KeyShortcutManager (src/PySide6TK/shortcuts.py) ====================
ActionNames == 1..NumActions
KeySequences == 1..NumKeys

\* the callback and description a caller registers an action with
Bindings == { [callback |-> "on_new", description |-> "Create new file"],
              [callback |-> "on_save", description |-> ""] }

\* the empty registry
NoShortcuts == [a \in {} |-> None]

\* a manager method's record: its name, its arguments, what it raised and
\* what it returned
Call(op, name, key, raised, returned) ==
    [op |-> op, name |-> name, key |-> key, raised |-> raised, returned |-> returned]

\* variant of retire: deleteLater() without setEnabled(False)
retire_enabled(obj) == [obj EXCEPT !.deleteLater = TRUE]

\* entry.shortcut.setEnabled(False); entry.shortcut.deleteLater()
retire(obj) == [obj EXCEPT !.enabled = FALSE, !.deleteLater = TRUE]

\* self.shortcuts.pop(action_name, None): the registry that is left
popped(reg, name) == [a \in DOMAIN reg \ {name} |-> reg[a]]

\* the QShortcut objects after remove_shortcut(name)
removed_objects(objs, reg, name) ==
    IF name \notin DOMAIN reg THEN objs
    ELSE [objs EXCEPT ![reg[name].shortcut] = retire(@)]

\* the QShortcut objects after add_shortcut(name, key, callback, ...)
added_objects(name, key, callback) ==
    Append(removed_objects(objects, shortcuts, name),
           [key |-> key, callback |-> callback, enabled |-> TRUE,
            deleteLater |-> FALSE])

\* the registry after add_shortcut(name, key, callback, description)
added_shortcuts(name, key, callback, description) ==
    LET reg == popped(shortcuts, name)
    IN  [a \in DOMAIN reg \cup {name} |->
            IF a = name
            THEN [shortcut |-> Len(objects) + 1, key_sequence |-> key,
                  callback |-> callback, description |-> description]
            ELSE reg[a]]

\* KeyShortcutManager.__init__
InitManager ==
    /\ shortcuts = NoShortcuts
    /\ objects = <<>>
    /\ call = Call("__init__", None, None, "none", None)

add_shortcut(name, key, b) ==
    /\ Len(objects) < MaxObjects
    /\ objects' = added_objects(name, key, b.callback)
    /\ shortcuts' = added_shortcuts(name, key, b.callback, b.description)
    /\ call' = Call("add_shortcut", name, key, "none", None)
    /\ UNCHANGED <<minimapVars, restVars>>

remove_shortcut(name) ==
    /\ objects' = removed_objects(objects, shortcuts, name)
    /\ shortcuts' = popped(shortcuts, name)
    /\ call' = Call("remove_shortcut", name, None, "none", None)
    /\ UNCHANGED <<minimapVars, restVars>>

\* variant of update_shortcut: an unregistered action is registered
update_shortcut_upsert(name, key) ==
    /\ Len(objects) < MaxObjects
    /\ LET b == IF name \in DOMAIN shortcuts THEN shortcuts[name]
                ELSE [callback |-> "on_new", description |-> ""]
       IN  /\ objects' = added_objects(name, key, b.callback)
           /\ shortcuts' = added_shortcuts(name, key, b.callback, b.description)
    /\ call' = Call("update_shortcut", name, key, "none", None)
    /\ UNCHANGED <<minimapVars, restVars>>

\* variant of update_shortcut: add_shortcut is called without the description
update_shortcut_plain(name, key) ==
    /\ name \in DOMAIN shortcuts => Len(objects) < MaxObjects
    /\ IF name \notin DOMAIN shortcuts
       THEN /\ call' = Call("update_shortcut", name, key, "KeyError", None)
            /\ UNCHANGED <<shortcuts, objects>>
       ELSE LET entry == shortcuts[name]
            IN  /\ objects' = added_objects(name, key, entry.callback)
                /\ shortcuts' = added_shortcuts(name, key, entry.callback, "")
                /\ call' = Call("update_shortcut", name, key, "none", None)

\* what update_shortcut does to the manager, whoever calls it
update_shortcut_call(name, key) ==
    /\ name \in DOMAIN shortcuts => Len(objects) < MaxObjects
    /\ IF name \notin DOMAIN shortcuts
       THEN /\ call' = Call("update_shortcut", name, key, "KeyError", None)
            /\ UNCHANGED <<shortcuts, objects>>
       ELSE LET entry == shortcuts[name]
            IN  /\ objects' = added_objects(name, key, entry.callback)
                /\ shortcuts' = added_shortcuts(name, key, entry.callback,
                                                entry.description)
                /\ call' = Call("update_shortcut", name, key, "none", None)

update_shortcut(name, key) ==
    /\ update_shortcut_call(name, key)
    /\ UNCHANGED <<minimapVars, restVars>>

get_shortcut_key(name) ==
    /\ call' = Call("get_shortcut_key", name, None, "none",
                    IF name \in DOMAIN shortcuts
                    THEN shortcuts[name].key_sequence ELSE None)
    /\ UNCHANGED <<shortcuts, objects>>
    /\ UNCHANGED <<minimapVars, restVars>>

\* ===== _ShortcutRow and _KeyCaptureDialog (src/PySide6TK/shortcuts.py) ====
\* what the dialog actions leave alone, the manager apart
dialogFrame == <<minimapVars, browserVars, codeVars, barVars>>

MODIFIER_KEYS == {"Key_Control", "Key_Shift", "Key_Alt", "Key_Meta"}

\* the keys of the key events: the modifiers, Return and a letter
Keys == MODIFIER_KEYS \cup {"Key_Return", "Key_N"}

\* the handler of the capture dialog that ran last and the key it received
KeyEvent(kind, key) == [kind |-> kind, key |-> key]

\* no capture dialog has been created
NoCapture ==
    [state |-> "none", current_key |-> None, new_key |-> None,
     evt |-> KeyEvent("none", "none")]

\* no shortcut editor has been opened
NoRow == [shown |-> FALSE, le_act |-> None, le_key |-> None, did |-> "none"]

InitDialog ==
    /\ capture = NoCapture
    /\ row = NoRow

\* _ShortcutEditorDialog.load_shortcuts: the row made for action a
load_shortcuts(a) ==
    /\ a \in DOMAIN shortcuts
    /\ capture.state # "open"
    /\ row' = [shown |-> TRUE, le_act |-> a,
               le_key |-> shortcuts[a].key_sequence, did |-> "load"]
    /\ capture' = NoCapture
    /\ UNCHANGED <<managerVars, dialogFrame>>

\* _edit_shortcut up to dialog.exec(): the capture dialog is constructed and
\* its event loop starts
_edit_shortcut_exec ==
    /\ row.shown
    /\ capture.state # "open"
    /\ capture' = [state |-> "open", current_key |-> row.le_key,
                   new_key |-> None, evt |-> KeyEvent("__init__", "none")]
    /\ row' = [row EXCEPT !.did = "exec"]
    /\ UNCHANGED <<managerVars, dialogFrame>>

\* variant of keyPressEvent: a modifier key is captured like any other key
_KeyCaptureDialog_keyPressEvent_any(key, seq) ==
    /\ capture.state = "open"
    /\ capture' = [capture EXCEPT !.new_key = seq, !.state = "accepted",
                                  !.evt = KeyEvent("keyPressEvent", key)]
    /\ UNCHANGED <<row, managerVars, dialogFrame>>

\* keyPressEvent; seq is QKeySequence(event.keyCombination()).toString()
_KeyCaptureDialog_keyPressEvent(key, seq) ==
    /\ capture.state = "open"
    /\ capture' = IF key \in MODIFIER_KEYS
                  THEN [capture EXCEPT !.evt = KeyEvent("keyPressEvent", key)]
                  ELSE [capture EXCEPT !.new_key = seq, !.state = "accepted",
                                       !.evt = KeyEvent("keyPressEvent", key)]
    /\ UNCHANGED <<row, managerVars, dialogFrame>>

_KeyCaptureDialog_keyReleaseEvent(key) ==
    /\ capture.state = "open"
    /\ capture' = IF key = "Key_Return" /\ capture.new_key # None
                  THEN [capture EXCEPT !.state = "accepted",
                                       !.evt = KeyEvent("keyReleaseEvent", key)]
                  ELSE [capture EXCEPT !.evt = KeyEvent("keyReleaseEvent", key)]
    /\ UNCHANGED <<row, managerVars, dialogFrame>>

\* btn_cancel.clicked -> self.reject
reject ==
    /\ capture.state = "open"
    /\ capture' = [capture EXCEPT !.state = "rejected",
                                  !.evt = KeyEvent("reject", "none")]
    /\ UNCHANGED <<row, managerVars, dialogFrame>>

\* _edit_shortcut from the return of dialog.exec() on
_edit_shortcut_done ==
    /\ row.did = "exec"
    /\ capture.state \in {"accepted", "rejected"}
    /\ IF capture.state = "rejected"
       THEN /\ row' = [row EXCEPT !.did = "cancelled"]
            /\ UNCHANGED managerVars
       ELSE LET new_key == capture.new_key
            IN  /\ update_shortcut_call(row.le_act, new_key)
                /\ row' = IF row.le_act \in DOMAIN shortcuts
                          THEN [row EXCEPT !.le_key = new_key, !.did = "updated"]
                          ELSE [row EXCEPT !.did = "error"]
    /\ UNCHANGED <<capture, dialogFrame>>

\* ===== ColumnBrowser (src/PySide6TK/column_browser.py) ===================
\* what the browser's methods leave alone
browserFrame == <<minimapVars, managerVars, dialogVars, codeVars, barVars>>

\* the texts of the list items a user can click
Items == {"a", "b"}

\* a browser method's record: its name, its index argument, the item text
BrowserCall(op, index, item) == [op |-> op, index |-> index, item |-> item]

\* _CBList(self, column_label, index): the n-th _CBList ever constructed
_CBList(n, index) == [id |-> n, index |-> index]

\* list(d): the keys of a dict in insertion order
dict_keys(d) == [p \in 1..Len(d) |-> d[p].k]

\* d[k] = v: an existing key keeps its place, a new key goes last
dict_set(d, k, v) ==
    IF \E p \in 1..Len(d) : d[p].k = k
    THEN [p \in 1..Len(d) |-> IF d[p].k = k THEN [k |-> k, v |-> v] ELSE d[p]]
    ELSE Append(d, [k |-> k, v |-> v])

\* seq[:index + 1] for index >= 0
slice_to(seq, index) == SubSeq(seq, 1, Min(Len(seq), index + 1))

\* the tokens after add_column_to_right
added_tokens(d, cols) == dict_set(d, Len(cols), "")

\* the columns after add_column_to_right; n objects were constructed before
added_columns(cols, n) == Append(cols, _CBList(n + 1, Len(cols)))

(* ColumnBrowser.__init__ with n column labels: one add_column_to_right per *)
(* label, then tokens[column_labels.index(label)] = '', a key the call has  *)
(* just set to ''.                                                          *)
RECURSIVE constructed_columns(_)
constructed_columns(n) ==
    IF n = 0 THEN <<>> ELSE added_columns(constructed_columns(n - 1), n - 1)

RECURSIVE constructed_tokens(_)
constructed_tokens(n) ==
    IF n = 0 THEN <<>>
    ELSE added_tokens(constructed_tokens(n - 1), constructed_columns(n - 1))

InitBrowser(n) ==
    /\ columns = constructed_columns(n)
    /\ hlayout_columns = constructed_columns(n)
    /\ tokens = constructed_tokens(n)
    /\ browserCall = BrowserCall("__init__", n, "")

add_column_to_right ==
    /\ Len(hlayout_columns) < MaxColumns
    /\ tokens' = added_tokens(tokens, columns)
    /\ columns' = added_columns(columns, Len(hlayout_columns))
    /\ hlayout_columns' = Append(hlayout_columns, columns'[Len(columns')])
    /\ browserCall' = BrowserCall("add_column_to_right", Len(columns), "")
    /\ UNCHANGED browserFrame

\* the tokens after clear_columns_right_of(index), from position p on
RECURSIVE cleared_tokens(_, _, _)
cleared_tokens(d, p, index) ==
    IF p > Len(columns) THEN d
    ELSE cleared_tokens(IF p - 1 > index THEN dict_set(d, p - 1, "") ELSE d,
                        p + 1, index)

clear_columns_right_of(index) ==
    /\ tokens' = cleared_tokens(tokens, 1, index)
    /\ browserCall' = BrowserCall("clear_columns_right_of", index, "")
    /\ UNCHANGED <<columns, hlayout_columns>>
    /\ UNCHANGED browserFrame

(* hlayout_columns.children() are the QObject children of the layout, its   *)
(* sub-layouts: a widget given to addWidget becomes a layout item, not a    *)
(* child, so the loop over children() meets no _CBList and removes none.    *)
layout_after_remove(layout, cols) == layout

\* variant of popped_tokens: the tokens are left as they are
popped_tokens_kept(d, index) == d

\* keys = list(self.tokens); pop every k with keys.index(k) > index
popped_tokens(d, index) == slice_to(d, index)

remove_columns_to_right_of(index) ==
    /\ IF Len(columns) > 1
       THEN /\ columns' = slice_to(columns, index)
            /\ hlayout_columns' = layout_after_remove(hlayout_columns, columns')
            /\ tokens' = popped_tokens(tokens, index)
       ELSE UNCHANGED <<tokens, columns, hlayout_columns>>
    /\ browserCall' = BrowserCall("remove_columns_to_right_of", index, "")
    /\ UNCHANGED browserFrame

\* self.tokens[index] = item; self.column_action(index), which does nothing
column_listener(index, item) ==
    /\ tokens' = dict_set(tokens, index, item)
    /\ browserCall' = BrowserCall("column_listener", index, item)
    /\ UNCHANGED <<columns, hlayout_columns>>
    /\ UNCHANGED browserFrame

\* _CBList.item_selected: an item of the p-th widget of the layout is clicked
item_selected(p, item) ==
    /\ p \in 1..Len(hlayout_columns)
    /\ column_listener(hlayout_columns[p].index, item)

\* ===== CodeEditor (src/PySide6TK/code_editor.py) =========================
(* The document is the sequence of its blocks' texts; a cursor position is  *)
(* a block number and a column.  QPlainTextEdit lays a block out on as many *)
(* visual lines as its text needs in the viewport (lineWrapMode WidgetWidth,*)
(* the default) or on one (NoWrap); ViewportCols characters fit a line.     *)
\* what the editor's methods leave alone
codeFrame == <<minimapVars, managerVars, dialogVars, browserVars, barVars>>

Tab == "\t"
Chars == {Tab, "x"}

\* the texts a block of an input document has
LineTexts == { <<>>, <<Tab>>, <<"x">>, <<Tab, "x">>, <<"x", "x", "x">> }

\* the documents of 1..n blocks
RECURSIVE DocsOf(_)
DocsOf(n) ==
    IF n = 0 THEN {<<>>}
    ELSE LET shorter == DocsOf(n - 1)
         IN  shorter \cup { Append(d, t) : d \in { e \in shorter : Len(e) = n - 1 },
                                         t \in LineTexts }

Documents == DocsOf(MaxDocBlocks) \ {<<>>}

Position(block, col) == [block |-> block, col |-> col]

\* the positions of document d, blocks numbered from 0
Positions(d) ==
    { pos \in [block : 0..(Len(d) - 1), col : 0..MaxLineLen] :
        pos.col <= Len(d[pos.block + 1]) }

Cursor(anchor, position) == [anchor |-> anchor, position |-> position]

\* QTextBlock.lineCount() of a block with this text
lineCount(text) ==
    IF lineWrap = "NoWrap" THEN 1
    ELSE Max(1, (Len(text) + ViewportCols - 1) \div ViewportCols)

\* the number of the first visual line of block b (from 0)
RECURSIVE firstLineNumber(_, _)
firstLineNumber(d, b) ==
    IF b = 0 THEN 0 ELSE firstLineNumber(d, b - 1) + lineCount(d[b])

\* document().lineCount()
documentLineCount(d) == firstLineNumber(d, Len(d))

\* an invalid QTextBlock
InvalidBlock == 0 - 1

\* document().findBlockByLineNumber(line): the block holding that visual
\* line, an invalid block when the document has no such line
findBlockByLineNumber(d, line) ==
    IF line < 0 \/ line >= documentLineCount(d) THEN InvalidBlock
    ELSE CHOOSE b \in 0..(Len(d) - 1) :
            /\ firstLineNumber(d, b) <= line
            /\ line < firstLineNumber(d, b) + lineCount(d[b + 1])

\* the text LineUnderCursor selects for a cursor at the start of block b,
\* nothing for a cursor on an invalid block
lineUnderCursor(d, b) ==
    IF b = InvalidBlock THEN <<>>
    ELSE IF lineWrap = "NoWrap" THEN d[b + 1]
    ELSE SubSeq(d[b + 1], 1, Min(Len(d[b + 1]), ViewportCols))

\* the document after add_line_prefix('\t', line)
add_line_prefix(d, line) ==
    LET b == findBlockByLineNumber(d, line)
    IN  IF b = InvalidBlock THEN d ELSE [d EXCEPT ![b + 1] = <<Tab>> \o @]

(* the document after remove_line_prefix('\t', line): when the selected     *)
(* line starts with the tab it is replaced by text.split('\t', 1)[-1], what *)
(* follows its first tab                                                    *)
remove_line_prefix(d, line) ==
    LET b == findBlockByLineNumber(d, line)
        text == lineUnderCursor(d, b)
    IN  IF text # <<>> /\ text[1] = Tab
        THEN [d EXCEPT ![b + 1] = Tail(text) \o SubSeq(@, Len(text) + 1, Len(@))]
        ELSE d

\* the document after indent(range(first, stop))
RECURSIVE indent_lines(_, _, _)
indent_lines(d, first, stop) ==
    IF first >= stop THEN d
    ELSE indent_lines(add_line_prefix(d, first), first + 1, stop)

\* the document after unindent(range(first, stop))
RECURSIVE unindent_lines(_, _, _)
unindent_lines(d, first, stop) ==
    IF first >= stop THEN d
    ELSE unindent_lines(remove_line_prefix(d, first), first + 1, stop)

\* the editor's cursor after indent(range(first, stop)): add_line_prefix
\* sets it to the start of the block and the insertion moves it past the tab
RECURSIVE indent_cursor(_, _, _, _)
indent_cursor(d, cur, first, stop) ==
    IF first >= stop THEN cur
    ELSE LET b == findBlockByLineNumber(d, first)
         IN  indent_cursor(add_line_prefix(d, first),
                           IF b = InvalidBlock THEN cur
                           ELSE Cursor(Position(b, 1), Position(b, 1)),
                           first + 1, stop)

\* a position of the editor's cursor after remove_line_prefix('\t', line)
moved_position(d, pos, line) ==
    LET b == findBlockByLineNumber(d, line)
        text == lineUnderCursor(d, b)
    IN  IF pos.block # b \/ remove_line_prefix(d, line) = d THEN pos
        ELSE IF pos.col <= Len(text) THEN Position(b, Len(text) - 1)
        ELSE Position(b, pos.col - 1)

RECURSIVE unindent_cursor(_, _, _, _)
unindent_cursor(d, cur, first, stop) ==
    IF first >= stop THEN cur
    ELSE unindent_cursor(remove_line_prefix(d, first),
                         Cursor(moved_position(d, cur.anchor, first),
                                moved_position(d, cur.position, first)),
                         first + 1, stop)

Before(pos1, pos2) ==
    pos1.block < pos2.block \/ (pos1.block = pos2.block /\ pos1.col <= pos2.col)

hasSelection(cur) == cur.anchor # cur.position
selectionStart(cur) == IF Before(cur.anchor, cur.position) THEN cur.anchor ELSE cur.position
selectionEnd(cur) == IF Before(cur.anchor, cur.position) THEN cur.position ELSE cur.anchor

\* <<first_line, last_line>>
_get_selection_range(cur) ==
    IF ~hasSelection(cur) THEN <<0, 0>>
    ELSE <<selectionStart(cur).block, selectionEnd(cur).block>>

\* a method's record: what was called with what, what it emitted, whether
\* the key went to QPlainTextEdit.keyPressEvent, and the state it found
KeyEvt(op, first, last, emitted, default, before, cursor0, prev) ==
    [op |-> op, first |-> first, last |-> last, emitted |-> emitted,
     default |-> default, before |-> before, cursor0 |-> cursor0, prev |-> prev]

NoPrev == [op |-> "none", first |-> 0, last |-> 0, before |-> <<>>]

\* the record of a call as the next call remembers it
AsPrev(e) == [op |-> e.op, first |-> e.first, last |-> e.last, before |-> e.before]

\* CodeEditor.__init__: an empty document of one block
InitCodeEditor ==
    /\ document = <<<<>>>>
    /\ textCursor = Cursor(Position(0, 0), Position(0, 0))
    /\ lineWrap = "WidgetWidth"
    /\ keyEvt = KeyEvt("__init__", 0, 0, "none", FALSE, <<>>,
                       Cursor(Position(0, 0), Position(0, 0)), NoPrev)

\* QPlainTextEdit.keyPressEvent for Key_Tab: the selection, which lies in
\* one block, is replaced by a tab
default_tab(d, cur) ==
    LET s == selectionStart(cur)
        e == selectionEnd(cur)
        text == d[s.block + 1]
    IN  [d EXCEPT ![s.block + 1] =
            SubSeq(text, 1, s.col) \o <<Tab>> \o SubSeq(text, e.col + 1, Len(text))]

fits(d) == \A b \in 1..Len(d) : Len(d[b]) <= MaxLineLen

KeyCodes == {"Key_Tab", "Key_Backtab"}

CodeEditor_keyPressEvent(key) ==
    LET range == _get_selection_range(textCursor)
        first_line == range[1]
        last_line == range[2]
    IN  /\ IF key = "Key_Tab" /\ last_line - first_line # 0
           THEN /\ document' = indent_lines(document, first_line, last_line + 1)
                /\ textCursor' = indent_cursor(document, textCursor, first_line,
                                               last_line + 1)
                /\ keyEvt' = KeyEvt(key, first_line, last_line, "indented", FALSE,
                                    document, textCursor, AsPrev(keyEvt))
           ELSE IF key = "Key_Backtab"
           THEN /\ document' = unindent_lines(document, first_line, last_line + 1)
                /\ textCursor' = unindent_cursor(document, textCursor, first_line,
                                                 last_line + 1)
                /\ keyEvt' = KeyEvt(key, first_line, last_line, "unindented", FALSE,
                                    document, textCursor, AsPrev(keyEvt))
           ELSE /\ document' = default_tab(document, textCursor)
                /\ textCursor' =
                      LET s == selectionStart(textCursor)
                      IN  Cursor(Position(s.block, s.col + 1),
                                 Position(s.block, s.col + 1))
                /\ keyEvt' = KeyEvt(key, first_line, last_line, "none", TRUE,
                                    document, textCursor, AsPrev(keyEvt))
        /\ fits(document')
        /\ UNCHANGED lineWrap
        /\ UNCHANGED codeFrame

\* indent(range(first, stop)) called directly
indent(first, stop) ==
    /\ document' = indent_lines(document, first, stop)
    /\ fits(document')
    /\ textCursor' = indent_cursor(document, textCursor, first, stop)
    /\ keyEvt' = KeyEvt("indent", first, stop - 1, "none", FALSE, document,
                        textCursor, AsPrev(keyEvt))
    /\ UNCHANGED lineWrap
    /\ UNCHANGED codeFrame

\* unindent(range(first, stop)) called directly
unindent(first, stop) ==
    /\ document' = unindent_lines(document, first, stop)
    /\ textCursor' = unindent_cursor(document, textCursor, first, stop)
    /\ keyEvt' = KeyEvt("unindent", first, stop - 1, "none", FALSE, document,
                        textCursor, AsPrev(keyEvt))
    /\ UNCHANGED lineWrap
    /\ UNCHANGED codeFrame

\* ===== UsageBar (src/PySide6TK/status.py, resource_monitor.py) ===========
\* what the bar's methods leave alone
barFrame == <<minimapVars, managerVars, dialogVars, browserVars, codeVars>>

BarClasses == {"CPUUsageBar", "MemoryUsageBar", "_UsageBar"}

(* The float arguments of set_percentage are the halves h / 2: around 0     *)
(* (negative, fractional) and around 100 (above 100).                       *)
Halves == ((0 - MaxHalves)..MaxHalves) \cup ((200 - MaxHalves)..(200 + MaxHalves))

\* int(h / 2): Python's int() drops the fraction, towards zero
int_of_halves(h) == IF h >= 0 THEN h \div 2 ELSE 0 - ((0 - h) \div 2)

\* variant of stored_percentage: the value is stored without clamping
stored_percentage_unclamped(n) == n

\* max(0, min(100, n))
stored_percentage(n) == Max(0, Min(100, n))

\* int(((total_delta - idle_delta) / total_delta) * 100), total_delta > 0
int_of_cpu_percent(idle_delta, total_delta) ==
    IF total_delta - idle_delta >= 0
    THEN IntMulRatio(total_delta - idle_delta, total_delta, 100)
    ELSE 0 - IntMulRatio(idle_delta - total_delta, total_delta, 100)

\* int(get_cpu_usage()) when GetSystemTimes delivered idle, kernel, user
cpu_usage(idle, kernel, user) ==
    IF bar.last_idle_time # 0
    THEN LET idle_delta == idle - bar.last_idle_time
             total_delta == (kernel - bar.last_kernel_time)
                            + (user - bar.last_user_time)
         IN  IF total_delta > 0 THEN int_of_cpu_percent(idle_delta, total_delta)
             ELSE 0
    ELSE 0

\* a bar method's record: its name, its argument in halves, and how many
\* refresh calls the bar has had (2 for two or more)
BarCall(op, halves, nth) == [op |-> op, halves |-> halves, nth |-> nth]

\* UsageBar.__init__, CPUUsageBar.__init__, _UsageBar.__init__ (setValue(0))
InitBar(class) ==
    /\ bar = [class |-> class, percentage |-> 0, last_idle_time |-> 0,
              last_kernel_time |-> 0, last_user_time |-> 0]
    /\ barCall = BarCall("__init__", 0, 0)

\* UsageBar.set_percentage and _UsageBar.set_percentage with h / 2
set_percentage(h) ==
    /\ bar' = [bar EXCEPT !.percentage = stored_percentage(int_of_halves(h))]
    /\ barCall' = BarCall("set_percentage", h, barCall.nth)
    /\ UNCHANGED barFrame

\* CPUUsageBar.refresh; result is what GetSystemTimes returned, FALSE also
\* standing for the calls that raise (no Windows API)
CPUUsageBar_refresh(result, idle, kernel, user) ==
    /\ bar.class = "CPUUsageBar"
    /\ bar' = IF result
              THEN [bar EXCEPT !.percentage =
                                   stored_percentage(cpu_usage(idle, kernel, user)),
                               !.last_idle_time = idle,
                               !.last_kernel_time = kernel,
                               !.last_user_time = user]
              ELSE [bar EXCEPT !.percentage = stored_percentage(0)]
    /\ barCall' = BarCall("refresh", 0, Min(2, barCall.nth + 1))
    /\ UNCHANGED barFrame

\* MemoryUsageBar.refresh; load is dwMemoryLoad, 0 when the call failed
MemoryUsageBar_refresh(load) ==
    /\ bar.class = "MemoryUsageBar"
    /\ bar' = [bar EXCEPT !.percentage = stored_percentage(load)]
    /\ barCall' = BarCall("refresh", 2 * load, Min(2, barCall.nth + 1))
    /\ UNCHANGED barFrame

\* the other widgets as constructed
InitWidgets ==
    InitDialog /\ InitBrowser(0) /\ InitCodeEditor /\ InitBar("CPUUsageBar")

\* ===== CodeMiniMapWidget: handlers =========================================
\* ----- __init__ -----------------------------------------------------------
Init ==
    /\ editor \in {None} \cup Editors
    /\ doc \in (IF editor = None THEN {NoDoc} ELSE Docs)
    /\ dragging = FALSE
    /\ cursor = "default"
    /\ line_height = DefaultLineHeight
    /\ height \in 0..MaxHeight
    /\ pending = FALSE
    /\ evt = [kind |-> "init", button |-> "none", y |-> 0, drag0 |-> FALSE,
              again |-> FALSE]
    /\ scrollCmds = <<>>
    /\ drawCmds = NoDraw
    /\ width = MinimumWidth
    /\ margin = DefaultMargin
    /\ content = PlainLine
    /\ subs = Unconnected({})
    /\ InitManager
    /\ InitWidgets

\* ----- set_editor ---------------------------------------------------------
set_editor(e) ==
    /\ e \in DOMAIN subs => subs[e].updateRequest < MaxConnections
    /\ subs' = connect_set_editor(subs, e)
    /\ editor' = e
    /\ doc' \in (IF e = None THEN {NoDoc}
                 ELSE IF e = editor THEN {doc} ELSE Docs)
    /\ pending' = TRUE
    /\ evt' = Event("set_editor", "none", 0)
    /\ scrollCmds' = <<>>
    /\ drawCmds' = NoDraw
    /\ UNCHANGED <<dragging, cursor, line_height, height>>
    /\ UNCHANGED <<canvasVars, managerVars, restVars>>

\* ----- paintEvent ---------------------------------------------------------
\* variant of paintEvent: the viewport rectangle is painted only when a
\* repaint was requested
paintEvent_once ==
    /\ drawCmds' = IF editor = None THEN [bg |-> TRUE, rows |-> <<>>, rect |-> <<>>]
                   ELSE [bg |-> TRUE, rows |-> _draw_lines,
                         rect |-> IF pending THEN _draw_view_area ELSE <<>>]
    /\ pending' = FALSE
    /\ evt' = Event("paint", "none", 0)
    /\ scrollCmds' = <<>>
    /\ UNCHANGED <<editor, dragging, cursor, line_height, height, doc>>
    /\ UNCHANGED <<canvasVars, subs, managerVars, restVars>>

paintEvent ==
    /\ drawCmds' = IF editor = None THEN [bg |-> TRUE, rows |-> <<>>, rect |-> <<>>]
                   ELSE [bg |-> TRUE, rows |-> _draw_lines, rect |-> _draw_view_area]
    /\ pending' = FALSE
    /\ evt' = Event("paint", "none", 0)
    /\ scrollCmds' = <<>>
    /\ UNCHANGED <<editor, dragging, cursor, line_height, height, doc>>
    /\ UNCHANGED <<canvasVars, subs, managerVars, restVars>>

\* ----- mouse events -------------------------------------------------------
\* variant of mousePressEvent: no "if not self.editor: return"
mousePressEvent_unguarded(button, y) ==
    /\ evt' = Event("press", button, y)
    /\ drawCmds' = NoDraw
    /\ IF button = "left"
       THEN /\ dragging' = TRUE
            /\ cursor' = "closed_hand"
            /\ scrollCmds' = _scroll_to_minimap_y(y)
            /\ doc' = Scrolled(doc, scrollCmds')
            /\ pending' = (pending \/ doc' # doc)
       ELSE /\ scrollCmds' = <<>>
            /\ UNCHANGED <<dragging, cursor, doc, pending>>
    /\ UNCHANGED <<editor, line_height, height>>
    /\ UNCHANGED <<canvasVars, subs, managerVars, restVars>>

mousePressEvent(button, y) ==
    /\ evt' = Event("press", button, y)
    /\ drawCmds' = NoDraw
    /\ IF editor # None /\ button = "left"
       THEN /\ dragging' = TRUE
            /\ cursor' = "closed_hand"
            /\ scrollCmds' = _scroll_to_minimap_y(y)
            /\ doc' = Scrolled(doc, scrollCmds')
            /\ pending' = (pending \/ doc' # doc)
       ELSE /\ scrollCmds' = <<>>
            /\ UNCHANGED <<dragging, cursor, doc, pending>>
    /\ UNCHANGED <<editor, line_height, height>>
    /\ UNCHANGED <<canvasVars, subs, managerVars, restVars>>

\* variant of mouseMoveEvent: scrolls whether or not _dragging is set
mouseMoveEvent_always(y) ==
    /\ evt' = Event("move", "none", y)
    /\ drawCmds' = NoDraw
    /\ IF editor # None
       THEN /\ scrollCmds' = _scroll_to_minimap_y(y)
            /\ doc' = Scrolled(doc, scrollCmds')
            /\ pending' = (pending \/ doc' # doc)
       ELSE /\ scrollCmds' = <<>>
            /\ UNCHANGED <<doc, pending>>
    /\ UNCHANGED <<editor, dragging, cursor, line_height, height>>
    /\ UNCHANGED <<canvasVars, subs, managerVars, restVars>>

mouseMoveEvent(y) ==
    /\ evt' = Event("move", "none", y)
    /\ drawCmds' = NoDraw
    /\ IF dragging /\ editor # None
       THEN /\ scrollCmds' = _scroll_to_minimap_y(y)
            /\ doc' = Scrolled(doc, scrollCmds')
            /\ pending' = (pending \/ doc' # doc)
       ELSE /\ scrollCmds' = <<>>
            /\ UNCHANGED <<doc, pending>>
    /\ UNCHANGED <<editor, dragging, cursor, line_height, height>>
    /\ UNCHANGED <<canvasVars, subs, managerVars, restVars>>

mouseReleaseEvent(button) ==
    /\ evt' = Event("release", button, 0)
    /\ drawCmds' = NoDraw
    /\ scrollCmds' = <<>>
    /\ IF button = "left"
       THEN dragging' = FALSE /\ cursor' = "default"
       ELSE UNCHANGED <<dragging, cursor>>
    /\ UNCHANGED <<editor, line_height, height, doc, pending>>
    /\ UNCHANGED <<canvasVars, subs, managerVars, restVars>>

\* variant of leaveEvent: _dragging is left alone
leaveEvent_keeps_drag ==
    /\ evt' = Event("leave", "none", 0)
    /\ drawCmds' = NoDraw
    /\ scrollCmds' = <<>>
    /\ UNCHANGED <<editor, dragging, cursor, line_height, height, doc, pending>>
    /\ UNCHANGED <<canvasVars, subs, managerVars, restVars>>

leaveEvent ==
    /\ evt' = Event("leave", "none", 0)
    /\ drawCmds' = NoDraw
    /\ scrollCmds' = <<>>
    /\ IF dragging
       THEN dragging' = FALSE /\ cursor' = "default"
       ELSE UNCHANGED <<dragging, cursor>>
    /\ UNCHANGED <<editor, line_height, height, doc, pending>>
    /\ UNCHANGED <<canvasVars, subs, managerVars, restVars>>

\* ----- the host and the editor's user -------------------------------------
\* the layout gives the widget a new height; Qt repaints a resized widget
resizeEvent(h) ==
    /\ h # height
    /\ height' = h
    /\ pending' = TRUE
    /\ evt' = Event("resize", "none", 0)
    /\ scrollCmds' = <<>>
    /\ drawCmds' = NoDraw
    /\ UNCHANGED <<editor, dragging, cursor, line_height, doc>>
    /\ UNCHANGED <<canvasVars, subs, managerVars, restVars>>

\* the attached editor's text changes: textChanged -> self.update
textChanged(n) ==
    /\ editor # None
    /\ n # doc.blocks
    /\ doc' = LET d == [doc EXCEPT !.blocks = n]
              IN  [d EXCEPT !.value = Min(doc.value, maximum(d))]
    /\ pending' = TRUE
    /\ evt' = Event("text", "none", 0)
    /\ scrollCmds' = <<>>
    /\ drawCmds' = NoDraw
    /\ UNCHANGED <<editor, dragging, cursor, line_height, height>>
    /\ UNCHANGED <<canvasVars, subs, managerVars, restVars>>

\* the attached editor is scrolled by its user: valueChanged -> self.update
valueChanged(v) ==
    /\ editor # None
    /\ v # doc.value
    /\ v <= maximum(doc)
    /\ doc' = [doc EXCEPT !.value = v]
    /\ pending' = TRUE
    /\ evt' = Event("scroll", "none", 0)
    /\ scrollCmds' = <<>>
    /\ drawCmds' = NoDraw
    /\ UNCHANGED <<editor, dragging, cursor, line_height, height>>
    /\ UNCHANGED <<canvasVars, subs, managerVars, restVars>>

Next ==
    \/ \E e \in {None} \cup Editors : set_editor(e)
    \/ paintEvent
    \/ \E b \in Buttons, y \in PointerYs : mousePressEvent(b, y)
    \/ \E y \in PointerYs : mouseMoveEvent(y)
    \/ \E b \in Buttons : mouseReleaseEvent(b)
    \/ leaveEvent
    \/ \E h \in 0..MaxHeight : resizeEvent(h)
    \/ \E n \in 1..MaxBlocks : textChanged(n)
    \/ \E v \in 0..MaxBlocks : valueChanged(v)

Spec == Init /\ [][Next]_vars

(* The geometry as a function of its inputs: any attached editor state,     *)
(* widget height and line_height.                                           *)
InitGeom ==
    /\ editor \in {None, 1}
    /\ doc \in (IF editor = None THEN {NoDoc}
                ELSE DocsUpTo(GeomMaxBlocks, GeomMaxLines))
    /\ dragging = FALSE
    /\ cursor = "default"
    /\ line_height \in 1..GeomMaxLineHeight
    /\ height \in 0..GeomMaxHeight
    /\ pending = FALSE
    /\ evt = [kind |-> "init", button |-> "none", y |-> 0, drag0 |-> FALSE,
              again |-> FALSE]
    /\ scrollCmds = <<>>
    /\ drawCmds = NoDraw
    /\ width = MinimumWidth
    /\ margin = DefaultMargin
    /\ content = PlainLine
    /\ subs = Unconnected({})
    /\ InitManager
    /\ InitWidgets

\* paintEvent applied to the inputs
NextPaint == paintEvent

SpecPaint == InitGeom /\ [][NextPaint]_vars

\* the pointer handlers applied to the inputs
NextScroll ==
    \/ \E y \in GeomPointerYs : mousePressEvent("left", y)
    \/ \E y \in GeomPointerYs : mouseMoveEvent(y)

SpecScroll == InitGeom /\ [][NextScroll]_vars

(* The bar of one row as a function of the block's text and runs and of the *)
(* widget's width: a one-block document on a minimap of one row.            *)
InitRow ==
    /\ editor = 1
    /\ doc = [blocks |-> 1, lines |-> 1, partial |-> FALSE, value |-> 0]
    /\ dragging = FALSE
    /\ cursor = "default"
    /\ line_height = DefaultLineHeight
    /\ height = DefaultLineHeight
    /\ pending = FALSE
    /\ evt = [kind |-> "init", button |-> "none", y |-> 0, drag0 |-> FALSE,
              again |-> FALSE]
    /\ scrollCmds = <<>>
    /\ drawCmds = NoDraw
    /\ width \in 0..MaxWidth
    /\ margin = DefaultMargin
    /\ content \in Contents
    /\ subs = Unconnected({})
    /\ InitManager
    /\ InitWidgets

NextRow == paintEvent

SpecRow == InitRow /\ [][NextRow]_vars

(* The cases the code guards against: a document without blocks, a scroll   *)
(* bar with pageStep 0, a widget lower than one row or without width.       *)
EdgeDocs ==
    { d \in [blocks : 0..EdgeMaxBlocks, lines : 0..EdgeMaxLines,
             partial : BOOLEAN, value : 0..EdgeMaxBlocks] :
        d.value <= maximum(d) }

EdgeContents ==
    { [text_len |-> 0, runs |-> <<>>],
      PlainLine,
      [text_len |-> 1, runs |-> <<[start |-> 0, length |-> 1, color |-> "foreground"]>>] }

EdgePointerYs == (0 - 1)..(EdgeMaxHeight + 1)

InitEdge ==
    /\ editor \in {None, 1}
    /\ doc \in (IF editor = None THEN {NoDoc} ELSE EdgeDocs)
    /\ dragging = FALSE
    /\ cursor = "default"
    /\ line_height \in 1..EdgeMaxLineHeight
    /\ height \in 0..EdgeMaxHeight
    /\ pending = FALSE
    /\ evt = [kind |-> "init", button |-> "none", y |-> 0, drag0 |-> FALSE,
              again |-> FALSE]
    /\ scrollCmds = <<>>
    /\ drawCmds = NoDraw
    /\ width \in {0, MinimumWidth}
    /\ margin = DefaultMargin
    /\ content \in EdgeContents
    /\ subs = Unconnected({})
    /\ InitManager
    /\ InitWidgets

NextEdge ==
    \/ paintEvent
    \/ \E y \in EdgePointerYs : mousePressEvent("left", y)

SpecEdge == InitEdge /\ [][NextEdge]_vars

(* The connections between the editors' signals and the minimap: every      *)
(* editor is followed, the minimap is constructed with or without one, and  *)
(* set_editor and the editors' signals follow in any order.                 *)
InitSubs ==
    /\ editor \in {None} \cup Editors
    /\ doc \in (IF editor = None THEN {NoDoc} ELSE Docs)
    /\ dragging = FALSE
    /\ cursor = "default"
    /\ line_height = DefaultLineHeight
    /\ height = MaxHeight
    /\ pending = FALSE
    /\ evt = [kind |-> "init", button |-> "none", y |-> 0, drag0 |-> FALSE,
              again |-> FALSE]
    /\ scrollCmds = <<>>
    /\ drawCmds = NoDraw
    /\ width = MinimumWidth
    /\ margin = DefaultMargin
    /\ content = PlainLine
    /\ subs = connect_init(Unconnected(Editors), editor)
    /\ InitManager
    /\ InitWidgets

\* editor e emits signal sig: every connected slot runs, each is self.update()
emit(e, sig) ==
    /\ e \in DOMAIN subs
    /\ evt' = [kind |-> "signal", button |-> "none", y |-> 0, drag0 |-> dragging,
               again |-> FALSE, sender |-> e, signal |-> sig,
               calls |-> subs[e][sig]]
    /\ pending' = (pending \/ subs[e][sig] > 0)
    /\ scrollCmds' = <<>>
    /\ drawCmds' = NoDraw
    /\ UNCHANGED <<editor, dragging, cursor, line_height, height, doc>>
    /\ UNCHANGED <<canvasVars, subs, managerVars, restVars>>

NextSubs ==
    \/ \E e \in {None} \cup Editors : set_editor(e)
    \/ \E e \in Editors, sig \in Signals : emit(e, sig)
    \/ paintEvent

SpecSubs == InitSubs /\ [][NextSubs]_vars

\* ===== KeyShortcutManager: specification ==================================
\* a minimap constructed without editor that no event reaches
IdleMinimap ==
    /\ editor = None
    /\ doc = NoDoc
    /\ dragging = FALSE
    /\ cursor = "default"
    /\ line_height = DefaultLineHeight
    /\ height = 0
    /\ pending = FALSE
    /\ evt = [kind |-> "init", button |-> "none", y |-> 0, drag0 |-> FALSE,
              again |-> FALSE]
    /\ scrollCmds = <<>>
    /\ drawCmds = NoDraw
    /\ width = MinimumWidth
    /\ margin = DefaultMargin
    /\ content = PlainLine
    /\ subs = Unconnected({})

InitShortcuts == IdleMinimap /\ InitManager /\ InitWidgets

NextManager ==
    \/ \E name \in ActionNames, key \in KeySequences, b \in Bindings :
          add_shortcut(name, key, b)
    \/ \E name \in ActionNames : remove_shortcut(name)
    \/ \E name \in ActionNames, key \in KeySequences : update_shortcut(name, key)
    \/ \E name \in ActionNames : get_shortcut_key(name)

SpecManager == InitShortcuts /\ [][NextManager]_vars

\* ===== _ShortcutRow and _KeyCaptureDialog: specification =================
(* A manager whose shortcuts are added and removed while the shortcut       *)
(* editor shows the row of one of them and the row's Edit button is used.   *)
NextDialog ==
    \/ /\ Len(objects) < DialogMaxObjects
       /\ \E name \in ActionNames, key \in KeySequences :
             add_shortcut(name, key, [callback |-> "on_save", description |-> ""])
    \/ \E name \in ActionNames : remove_shortcut(name)
    \/ \E a \in ActionNames : load_shortcuts(a)
    \/ _edit_shortcut_exec
    \/ \E key \in Keys, seq \in KeySequences :
          _KeyCaptureDialog_keyPressEvent(key, seq)
    \/ \E key \in Keys : _KeyCaptureDialog_keyReleaseEvent(key)
    \/ reject
    \/ /\ (capture.state = "accepted" /\ row.le_act \in DOMAIN shortcuts)
             => Len(objects) < DialogMaxObjects
       /\ _edit_shortcut_done

SpecDialog == InitShortcuts /\ [][NextDialog]_vars

\* ===== ColumnBrowser: specification ======================================
(* A browser constructed with 0..MaxLabels column labels; its methods are   *)
(* called in any order and any widget of the layout can be clicked.         *)
InitColumns ==
    /\ IdleMinimap
    /\ InitManager
    /\ InitBar("CPUUsageBar")
    /\ InitDialog
    /\ InitCodeEditor
    /\ \E n \in 0..MaxLabels : InitBrowser(n)

NextBrowser ==
    \/ add_column_to_right
    \/ \E i \in (0 - 1)..(MaxColumns - 1) : clear_columns_right_of(i)
    \/ \E i \in 0..(MaxColumns - 1) : remove_columns_to_right_of(i)
    \/ \E p \in 1..MaxColumns, item \in Items : item_selected(p, item)

SpecBrowser == InitColumns /\ [][NextBrowser]_vars

\* ===== CodeEditor: specifications ========================================
(* The key handler as a function of its inputs: any document, any cursor    *)
(* and selection, either wrap mode; Tab and Shift+Tab follow in any order.  *)
InitKeys ==
    /\ IdleMinimap
    /\ InitManager
    /\ InitBar("CPUUsageBar")
    /\ InitDialog
    /\ InitBrowser(0)
    /\ document \in Documents
    /\ textCursor \in { Cursor(a, p) : a \in Positions(document),
                                       p \in Positions(document) }
    /\ lineWrap \in {"NoWrap", "WidgetWidth"}
    /\ keyEvt = KeyEvt("__init__", 0, 0, "none", FALSE, <<>>,
                       Cursor(Position(0, 0), Position(0, 0)), NoPrev)

NextKeys == \E key \in KeyCodes : CodeEditor_keyPressEvent(key)

SpecKeys == InitKeys /\ [][NextKeys]_vars

(* indent and unindent as functions of their inputs: any document, either   *)
(* wrap mode, any range of line numbers of the document.                    *)
InitIndent ==
    /\ IdleMinimap
    /\ InitManager
    /\ InitBar("CPUUsageBar")
    /\ InitDialog
    /\ InitBrowser(0)
    /\ document \in Documents
    /\ textCursor = Cursor(Position(0, 0), Position(0, 0))
    /\ lineWrap \in {"NoWrap", "WidgetWidth"}
    /\ keyEvt = KeyEvt("__init__", 0, 0, "none", FALSE, <<>>,
                       Cursor(Position(0, 0), Position(0, 0)), NoPrev)

NextIndent ==
    \/ \E first \in 0..(documentLineCount(document) - 1),
          stop \in 1..documentLineCount(document) :
          first < stop /\ indent(first, stop)
    \/ \E first \in 0..(documentLineCount(document) - 1),
          stop \in 1..documentLineCount(document) :
          first < stop /\ unindent(first, stop)

SpecIndent == InitIndent /\ [][NextIndent]_vars

\* ===== UsageBar: specification ===========================================
(* A bar of one of the three classes; set_percentage is called with any of  *)
(* the arguments and the bar is refreshed with any system times.            *)
InitUsage ==
    /\ IdleMinimap
    /\ InitManager
    /\ InitDialog
    /\ InitBrowser(0)
    /\ InitCodeEditor
    /\ \E class \in BarClasses : InitBar(class)

NextBar ==
    \/ \E h \in Halves : set_percentage(h)
    \/ \E result \in BOOLEAN, idle \in 0..MaxTime, kernel \in 0..MaxTime,
          user \in 0..MaxTime : CPUUsageBar_refresh(result, idle, kernel, user)
    \/ \E load \in (0..MaxHalves) \cup ((100 - MaxHalves)..100) :
          MemoryUsageBar_refresh(load)

SpecBar == InitUsage /\ [][NextBar]_vars

(* One highlighted run inside the text of a block, on a minimap of one row  *)
(* whose width is any small width or any width the widget's minimum and     *)
(* maximum width allow.                                                     *)
SegRuns(text_len) ==
    { run \in [start : 0..(text_len - 1), length : 1..text_len, color : {"foreground"}] :
        run.start + run.length <= text_len }

SegContents ==
    UNION { { [text_len |-> n, runs |-> <<run>>] : run \in SegRuns(n) } :
            n \in 1..SegMaxTextLen }

SegWidths == (0..MaxWidth) \cup (MinimumWidth..MaximumWidth)

InitSeg ==
    /\ editor = 1
    /\ doc = [blocks |-> 1, lines |-> 1, partial |-> FALSE, value |-> 0]
    /\ dragging = FALSE
    /\ cursor = "default"
    /\ line_height = DefaultLineHeight
    /\ height = DefaultLineHeight
    /\ pending = FALSE
    /\ evt = [kind |-> "init", button |-> "none", y |-> 0, drag0 |-> FALSE,
              again |-> FALSE]
    /\ scrollCmds = <<>>
    /\ drawCmds = NoDraw
    /\ width \in SegWidths
    /\ margin = DefaultMargin
    /\ content \in SegContents
    /\ subs = Unconnected({})
    /\ InitManager
    /\ InitWidgets

NextSeg == paintEvent

SpecSeg == InitSeg /\ [][NextSeg]_vars

\* ===== properties of paintEvent (SpecPaint) ================================
Painted == evt.kind = "paint" /\ editor # None

RectDrawn == Painted /\ drawCmds.rect # <<>>

\* a row that paints no document block (padding below the last block)
NoBlock == 0 - 1

\* rows of the last paint that show the first visible block
RowsOfFirstVisible == { r \in DOMAIN drawCmds.rows : drawCmds.rows[r].block = doc.value }

(* C1: the viewport rectangle and the rows use one vertical scale.  With at *)
(* least two rows, the rectangle's top y is within line_height of the y of  *)
(* a row that paints the first visible block f; when no row paints f, it is *)
(* within line_height of the two neighbouring rows whose blocks bracket f.  *)
C1_SharedVerticalScale ==
    (RectDrawn /\ max_lines >= 2) =>
        LET y == drawCmds.rect[1].y
            rows == drawCmds.rows
        IN  IF RowsOfFirstVisible # {}
            THEN \E r \in RowsOfFirstVisible : Abs(y - rows[r].y) <= line_height
            ELSE \E r \in 1..(Len(rows) - 1) :
                    /\ rows[r].block < doc.value
                    /\ doc.value < rows[r + 1].block
                    /\ rows[r].y - line_height <= y
                    /\ y <= rows[r + 1].y + line_height

\* C1 witness: a sub-sampled document whose first visible block has no row
C1_Witness ==
    /\ RectDrawn
    /\ max_lines >= 2
    /\ doc.blocks > max_lines
    /\ doc.value > 0
    /\ RowsOfFirstVisible = {}

(* C2 as stated: every drawn rectangle has y >= 0, h >= 2 and               *)
(* y + h <= usable_height.                                                  *)
C2_RectInsideUsable_AsStated ==
    RectDrawn =>
        LET rc == drawCmds.rect[1]
        IN  rc.y >= 0 /\ rc.h >= 2 /\ rc.y + rc.h <= usable_h

(* C2 amended: every drawn rectangle has y >= 0 and h >= 2, and             *)
(* y + h <= usable_height whenever usable_height >= 2; with                 *)
(* usable_height = 1 the rectangle is (0, 2).                               *)
C2_RectInsideUsable ==
    RectDrawn =>
        LET rc == drawCmds.rect[1]
        IN  /\ rc.y >= 0
            /\ rc.h >= 2
            /\ usable_h >= 2 => rc.y + rc.h <= usable_h
            /\ usable_h = 1 => (rc.y = 0 /\ rc.h = 2)

\* C2 witness: the last block is first visible on a one-pixel-per-row minimap
C2_Witness ==
    /\ RectDrawn
    /\ line_height = 1
    /\ usable_h >= 3
    /\ doc.value = doc.blocks - 1
    /\ doc.value > 0
    /\ drawCmds.rect[1].y + drawCmds.rect[1].h = usable_h

RowsNonDecreasing ==
    \A r \in 1..(Len(drawCmds.rows) - 1) :
        drawCmds.rows[r].block <= drawCmds.rows[r + 1].block

(* C3 as stated: when total_blocks > N >= 1 the block index of row i is     *)
(* non-decreasing in i, row 0 paints block 0 and row N-1 paints block       *)
(* total_blocks - 1.                                                        *)
C3_SubsampleCovers_AsStated ==
    (Painted /\ max_lines >= 1 /\ doc.blocks > max_lines) =>
        /\ Len(drawCmds.rows) = max_lines
        /\ RowsNonDecreasing
        /\ drawCmds.rows[1].block = 0
        /\ drawCmds.rows[max_lines].block = doc.blocks - 1

(* C3 amended: the same for total_blocks > N >= 2; with N = 1 the only row  *)
(* paints block 0.                                                          *)
C3_SubsampleCovers ==
    (Painted /\ max_lines >= 1 /\ doc.blocks > max_lines) =>
        /\ Len(drawCmds.rows) = max_lines
        /\ RowsNonDecreasing
        /\ drawCmds.rows[1].block = 0
        /\ max_lines >= 2 => drawCmds.rows[max_lines].block = doc.blocks - 1

\* C3 witness: a sub-sampled document on at least three rows
C3_Witness ==
    /\ Painted
    /\ max_lines >= 3
    /\ doc.blocks > max_lines + 1
    /\ drawCmds.rows[max_lines].block = doc.blocks - 1

(* C4: when the document fits (1 <= total_blocks <= N), row k paints block  *)
(* k for every block k, so no block is painted on two rows, and the rows    *)
(* after the last block paint no block (placeholder only).                  *)
C4_OneToOneWhenFits ==
    (Painted /\ 1 <= doc.blocks /\ doc.blocks <= max_lines) =>
        /\ Len(drawCmds.rows) = max_lines
        /\ \A r \in 1..max_lines :
              drawCmds.rows[r].block = (IF r <= doc.blocks THEN r - 1 ELSE NoBlock)

\* ===== properties of the pointer handlers =================================
LeftPress == evt.kind = "press" /\ evt.button = "left"

\* the handler that ran last was one that may scroll: a left press, or a move
\* that found _dragging set
ScrollingEvent == LeftPress \/ (evt.kind = "move" /\ evt.drag0)

(* C5: _dragging is a two-state machine.  It becomes True only in a left    *)
(* press with an editor attached, it is False after every left release and  *)
(* every leave, and move, paint, scroll-change and text-change leave it as  *)
(* it was.                                                                  *)
C5_DragFlagMachine ==
    /\ (dragging /\ ~evt.drag0) => (LeftPress /\ editor # None)
    /\ (evt.kind = "release" /\ evt.button = "left") => ~dragging
    /\ evt.kind = "leave" => ~dragging
    /\ evt.kind \in {"move", "paint", "scroll", "text"} => dragging = evt.drag0

\* C5 witness: a leave that ended a drag
C5_Witness == evt.kind = "leave" /\ evt.drag0 /\ ~dragging /\ cursor = "default"

(* C6 as stated: a left press (editor attached) issues exactly one scroll   *)
(* command, every move while Dragging issues exactly one, a move while Idle *)
(* issues none, and no other event issues one.                              *)
C6_ScrollCommands_AsStated ==
    /\ (LeftPress /\ editor # None) => Len(scrollCmds) = 1
    /\ (evt.kind = "move" /\ evt.drag0) => Len(scrollCmds) = 1
    /\ (evt.kind = "move" /\ ~evt.drag0) => scrollCmds = <<>>
    /\ scrollCmds # <<>> => evt.kind \in {"press", "move"}

(* C6 amended: a left press, and a move while Dragging, issue exactly one   *)
(* scroll command when an editor is attached and usable_height > 0, and     *)
(* none otherwise; the editor's position afterwards is that command forced  *)
(* into the scroll bar's range.  A move while Idle issues none and leaves   *)
(* the editor unchanged, and no other event issues a scroll command.        *)
C6_ScrollCommands ==
    [][ LET active == editor # None /\ usable_h > 0
        IN  /\ (evt'.kind = "press" /\ evt'.button = "left") \/ (evt'.kind = "move" /\ dragging)
                => /\ Len(scrollCmds') = (IF active THEN 1 ELSE 0)
                   /\ active => doc'.value = Max(0, Min(maximum(doc), scrollCmds'[1]))
                   /\ ~active => doc' = doc
            /\ (evt'.kind = "move" /\ ~dragging) => (scrollCmds' = <<>> /\ doc' = doc)
            /\ (evt'.kind = "press" /\ evt'.button # "left") => (scrollCmds' = <<>> /\ doc' = doc)
            /\ evt'.kind \notin {"press", "move"} => scrollCmds' = <<>>
      ]_vars

\* C6 witness: a move while Dragging that scrolled the editor
C6_Witness ==
    /\ evt.kind = "move"
    /\ evt.drag0
    /\ Len(scrollCmds) = 1
    /\ doc.value = scrollCmds[1]
    /\ doc.value > 0

(* C7 as stated (for usable_height > 0): after a press or drag at           *)
(* y >= usable_height the position is the maximum, at y <= 0 it is the      *)
(* minimum, and it always lies in [minimum, maximum].                       *)
C7_PointerClamped_AsStated ==
    (ScrollingEvent /\ editor # None /\ usable_h > 0) =>
        /\ evt.y >= usable_h => doc.value = maximum(doc)
        /\ evt.y <= 0 => doc.value = 0
        /\ 0 <= doc.value /\ doc.value <= maximum(doc)

(* C7 amended: with usable_height > 0, after a press or drag at             *)
(* y >= usable_height + 1 the position is the maximum, at y <= 0 it is the  *)
(* minimum, and it always lies in [minimum, maximum].                       *)
C7_PointerClamped ==
    (ScrollingEvent /\ editor # None /\ usable_h > 0) =>
        /\ evt.y >= usable_h + 1 => doc.value = maximum(doc)
        /\ evt.y <= 0 => doc.value = 0
        /\ 0 <= doc.value /\ doc.value <= maximum(doc)

\* C7 witness: a press below the painted area of a long document
C7_Witness ==
    /\ LeftPress
    /\ editor # None
    /\ usable_h > 0
    /\ evt.y >= usable_h + 1
    /\ maximum(doc) >= 2
    /\ doc.value = maximum(doc)
    /\ scrollCmds = <<pageStep(doc) + maximum(doc)>>

(* C8: a left press at the vertical centre of the viewport rectangle of the *)
(* current state moves the scroll position by at most total / N.            *)
C8_RoundTrip ==
    [][ (/\ evt'.kind = "press"
         /\ evt'.button = "left"
         /\ _draw_view_area # <<>>
         /\ 2 * evt'.y = 2 * _draw_view_area[1].y + _draw_view_area[1].h)
        => Abs(doc'.value - doc.value) * max_lines <= pageStep(doc) + maximum(doc)
      ]_vars

(* C9: set_editor called while _dragging is True leaves it False, and a     *)
(* pointer move that follows set_editor directly issues no scroll command.  *)
C9_SetEditorEndsDrag ==
    [][ /\ (evt'.kind = "set_editor" /\ dragging) => ~dragging'
        /\ (evt.kind = "set_editor" /\ evt'.kind = "move") => scrollCmds' = <<>>
      ]_vars

(* C10: with no editor attached paintEvent paints the background only, and  *)
(* press, move, release and leave issue no scroll command and do not set    *)
(* _dragging.                                                               *)
C10_DetachedNoOps ==
    editor = None =>
        /\ evt.kind = "paint" => drawCmds = [bg |-> TRUE, rows |-> <<>>, rect |-> <<>>]
        /\ evt.kind \in {"press", "move", "release", "leave"} =>
              /\ scrollCmds = <<>>
              /\ dragging => evt.drag0
              /\ doc = NoDoc

\* C10 witness: a left press on a minimap without editor
C10_Witness == editor = None /\ LeftPress /\ ~dragging /\ cursor = "default"

\* ===== properties of the viewport rectangle and the row sampling ===========
(* C11: the viewport rectangle follows the scroll bar proportionally.  With *)
(* total = pageStep + maximum its top is position / total * usable_height   *)
(* and its height pageStep / total * usable_height (each within one pixel,  *)
(* and after the same 2-pixel minimum and bottom clamp), it is drawn at     *)
(* x = margin with width inner_width - 1, and _viewport_box_height equals   *)
(* the height of the drawn rectangle.                                       *)
C11_ProportionalRect ==
    RectDrawn =>
        LET rc == drawCmds.rect[1]
            total == pageStep(doc) + maximum(doc)
            top == (doc.value * usable_h) \div total
            ey == Max(0, Min(top, usable_h - 2))
            eh == Max(2, Min((pageStep(doc) * usable_h) \div total, usable_h - ey))
        IN  /\ Abs(rc.y - ey) <= 1
            /\ Abs(rc.h - eh) <= 1
            /\ rc.x = margin
            /\ rc.w = inner_w - 1
            /\ _viewport_box_height = rc.h

(* C12: when the scroll range is zero (maximum = 0) and the document is not *)
(* empty, the viewport rectangle is drawn with y = 0 and height             *)
(* usable_height (stated for usable_height >= 2, where a rectangle of at    *)
(* least 2 pixels fits).                                                    *)
C12_FullHeightWhenAllVisible ==
    (Painted /\ maximum(doc) = 0 /\ doc.blocks >= 1 /\ usable_h >= 2) =>
        /\ drawCmds.rect # <<>>
        /\ drawCmds.rect[1].y = 0
        /\ drawCmds.rect[1].h = usable_h

\* the quotient i * (total_blocks - 1) / max(1, N - 1) of row r (1-based)
RowScaled(r) == (r - 1) * (doc.blocks - 1)

(* C13 as stated: for every row i in 0..N-1 the block index painted is      *)
(* round(i * (total_blocks - 1) / max(1, N - 1)).                           *)
C13_NearestSampling_AsStated ==
    Painted =>
        \A r \in DOMAIN drawCmds.rows :
            drawCmds.rows[r].block = Round(RowScaled(r), Max(1, max_lines - 1))

(* C13 amended: for every row i in 0..N-1 the block index b painted is the  *)
(* quotient truncated, b <= i * (total_blocks - 1) / max(1, N - 1) < b + 1, *)
(* so it equals the rounded quotient only where the fraction is below 1/2   *)
(* (or is 1/2 with b even).                                                 *)
C13_NearestSampling ==
    Painted =>
        \A r \in DOMAIN drawCmds.rows :
            LET b == drawCmds.rows[r].block
                n == Max(1, max_lines - 1)
            IN  /\ b * n <= RowScaled(r)
                /\ RowScaled(r) < (b + 1) * n
                /\ 0 <= b /\ b <= doc.blocks - 1

\* C13 witness: a row whose truncated quotient is not the rounded one
C13_Witness ==
    /\ Painted
    /\ \E r \in DOMAIN drawCmds.rows :
          drawCmds.rows[r].block + 1 = Round(RowScaled(r), Max(1, max_lines - 1))

(* C14: paintEvent changes neither _dragging, the attached editor, the      *)
(* editor's document and scroll position, line_height nor margin, and a     *)
(* paintEvent that directly follows a paintEvent produces the same draw     *)
(* commands.                                                                *)
C14_RepaintIdempotent ==
    [][ evt'.kind = "paint" =>
          /\ dragging' = dragging
          /\ editor' = editor
          /\ doc' = doc
          /\ line_height' = line_height
          /\ margin' = margin
          /\ evt.kind = "paint" => drawCmds' = drawCmds
      ]_vars

\* C14 witness: a second repaint in a row, during a drag, with rows and rectangle
C14_Witness ==
    /\ evt.kind = "paint"
    /\ evt.again
    /\ dragging
    /\ drawCmds.rows # <<>>
    /\ drawCmds.rect # <<>>

\* ===== properties of a row's bar (SpecRow) =================================
(* C15: every painted row paints at least one segment, each of width >= 1:  *)
(* an empty block the dim placeholder, a block with text and no runs one    *)
(* full-width neutral segment, a block with runs at least one coloured      *)
(* segment, whatever the runs (runs of length <= 0 included).               *)
C15_EveryRowHasSegment ==
    Painted =>
        \A r \in DOMAIN drawCmds.rows :
            LET segs == drawCmds.rows[r].segs
            IN  /\ Len(segs) >= 1
                /\ \A k \in DOMAIN segs : segs[k].w >= 1
                /\ content.text_len = 0 =>
                      segs = <<[x |-> margin, w |-> inner_w, color |-> "#2a2a2a"]>>
                /\ (content.text_len > 0 /\ content.runs = <<>>) =>
                      segs = <<[x |-> margin, w |-> inner_w, color |-> "#666"]>>

\* ===== properties of the guarded edge cases (SpecEdge) =====================
(* C16: for a non-empty document the number of painted rows n is            *)
(* floor(height / line_height), i.e. n * line_height <= height <            *)
(* (n + 1) * line_height, row i is painted at i * line_height and ends      *)
(* inside the canvas; when height < line_height no row and no viewport      *)
(* rectangle is painted and a left press issues no scroll command.          *)
C16_RowsFitCanvas ==
    /\ (Painted /\ doc.blocks >= 1) =>
          LET rows == drawCmds.rows
              n == Len(rows)
          IN  /\ n * line_height <= height
              /\ height < (n + 1) * line_height
              /\ \A r \in 1..n :
                    /\ rows[r].y = (r - 1) * line_height
                    /\ rows[r].y + rows[r].h < rows[r].y + line_height
                    /\ rows[r].y + line_height <= height
    /\ (Painted /\ height < line_height) =>
          (drawCmds.rows = <<>> /\ drawCmds.rect = <<>>)
    /\ (LeftPress /\ height < line_height) => scrollCmds = <<>>

\* C16 witness: at least two rows and a strip below them too low for a row
C16_Witness ==
    /\ Painted
    /\ doc.blocks >= 1
    /\ Len(drawCmds.rows) >= 2
    /\ height > usable_h

(* C17: every divisor a paintEvent reached in _draw_lines and               *)
(* _draw_view_area, and a left press reached in _scroll_to_minimap_y and    *)
(* _viewport_box_height, is >= 1, for every block count, page step,         *)
(* maximum, height and width from 0 on (line_height >= 1), and for a        *)
(* document without blocks no row and no rectangle is painted.              *)
C17_NoZeroDivisor ==
    /\ Painted =>
          \A d \in _draw_lines_divisors \cup _draw_view_area_divisors : d >= 1
    /\ (LeftPress /\ editor # None) =>
          \A d \in _scroll_to_minimap_y_divisors : d >= 1
    /\ (Painted /\ doc.blocks = 0) =>
          (drawCmds.rows = <<>> /\ drawCmds.rect = <<>>)

\* C17 witness: a document without blocks painted on a widget of width 0
\* that has room for rows
C17_Witness ==
    /\ Painted
    /\ doc.blocks = 0
    /\ pageStep(doc) = 0
    /\ width = 0
    /\ max_lines >= 1
    /\ drawCmds.bg

\* ===== properties of the signal connections (SpecSubs) =====================
(* C18: after construction and any sequence of set_editor calls the minimap *)
(* is connected exactly once to textChanged and valueChanged of the current *)
(* editor (and at most once to its updateRequest), it has no connection to  *)
(* any signal of another editor, and a signal of an editor that is not the  *)
(* current one calls no slot of the minimap.                                *)
C18_SubscribedOnce ==
    /\ \A e \in DOMAIN subs :
          IF e = editor
          THEN /\ subs[e].textChanged = 1
               /\ subs[e].valueChanged = 1
               /\ subs[e].updateRequest <= 1
          ELSE \A sig \in Signals : subs[e][sig] = 0
    /\ (evt.kind = "signal" /\ evt.sender # editor) => evt.calls = 0

\* ===== properties of KeyShortcutManager (SpecManager) ======================
(* C19: a QShortcut the manager created is enabled if and only if it is the *)
(* one the registry stores for some action; the registry stores a different *)
(* object for each action, bound to the entry's key sequence; a shortcut    *)
(* that was replaced or removed is disabled and scheduled for deletion.     *)
C19_RegistryInvariant ==
    /\ \A i \in DOMAIN objects :
          /\ objects[i].enabled <=> (\E a \in DOMAIN shortcuts : shortcuts[a].shortcut = i)
          /\ objects[i].deleteLater <=> ~objects[i].enabled
    /\ \A a \in DOMAIN shortcuts :
          /\ a \in ActionNames
          /\ shortcuts[a].shortcut \in DOMAIN objects
          /\ objects[shortcuts[a].shortcut].key = shortcuts[a].key_sequence
          /\ \A b \in DOMAIN shortcuts :
                shortcuts[a].shortcut = shortcuts[b].shortcut => a = b

\* C19 witness: an update replaced a shortcut while another action keeps its own
C19_Witness ==
    /\ call.op = "update_shortcut"
    /\ call.raised = "none"
    /\ Cardinality(DOMAIN shortcuts) = 2
    /\ \E i \in DOMAIN objects : ~objects[i].enabled /\ objects[i].deleteLater

(* C20: update_shortcut on an unregistered action raises KeyError and       *)
(* leaves the registry and every QShortcut as they were; remove_shortcut on *)
(* an unregistered action raises nothing and changes nothing;               *)
(* get_shortcut_key returns None for an unregistered action.                *)
C20_UnregisteredAction ==
    [][ (call'.op \in {"update_shortcut", "remove_shortcut", "get_shortcut_key"}
         /\ call'.name \notin DOMAIN shortcuts) =>
            /\ shortcuts' = shortcuts
            /\ objects' = objects
            /\ call'.raised = (IF call'.op = "update_shortcut" THEN "KeyError" ELSE "none")
            /\ call'.returned = None
      ]_vars

\* C20 witness: KeyError from update_shortcut while another action is registered
C20_Witness ==
    /\ call.op = "update_shortcut"
    /\ call.raised = "KeyError"
    /\ call.name \notin DOMAIN shortcuts
    /\ shortcuts # NoShortcuts
    /\ \E i \in DOMAIN objects : objects[i].enabled


(* C27: update_shortcut(a, k) on a registered action a changes only a's    *)
(* key binding: afterwards a's key is k (and get_shortcut_key(a) returns    *)
(* the key the registry holds), a's callback and description are the ones   *)
(* it had, the set of registered names is the same, and the entry and the   *)
(* QShortcut object of every other action are as they were, also when       *)
(* another action is bound to k.                                            *)
C27_UpdateChangesOneKey ==
    [][ /\ (call'.op = "update_shortcut" /\ call'.name \in DOMAIN shortcuts) =>
            LET a == call'.name
                k == call'.key
            IN  /\ call'.raised = "none"
                /\ DOMAIN shortcuts' = DOMAIN shortcuts
                /\ shortcuts'[a].key_sequence = k
                /\ shortcuts'[a].callback = shortcuts[a].callback
                /\ shortcuts'[a].description = shortcuts[a].description
                /\ objects'[shortcuts'[a].shortcut] =
                      [key |-> k, callback |-> shortcuts[a].callback,
                       enabled |-> TRUE, deleteLater |-> FALSE]
                /\ \A b \in DOMAIN shortcuts \ {a} :
                      /\ shortcuts'[b] = shortcuts[b]
                      /\ objects'[shortcuts[b].shortcut] = objects[shortcuts[b].shortcut]
        /\ (call'.op = "get_shortcut_key" /\ call'.name \in DOMAIN shortcuts) =>
              call'.returned = shortcuts[call'.name].key_sequence
      ]_vars

\* C27 witness: an action with a description was moved from another key to
\* the key a second action is bound to, and the second action's QShortcut is
\* still enabled
C27_Witness ==
    /\ call.op = "update_shortcut"
    /\ call.raised = "none"
    /\ call.name \in DOMAIN shortcuts
    /\ shortcuts[call.name].key_sequence = call.key
    /\ shortcuts[call.name].description = "Create new file"
    /\ \E b \in DOMAIN shortcuts \ {call.name} :
          /\ shortcuts[b].key_sequence = call.key
          /\ objects[shortcuts[b].shortcut].enabled
    /\ \E i \in DOMAIN objects :
          /\ ~objects[i].enabled
          /\ objects[i].key # call.key
          /\ objects[i].callback = shortcuts[call.name].callback

\* ===== properties of the key capture dialog (SpecDialog) ==================
(* C21: a press of a modifier-only key neither sets new_key nor accepts the *)
(* dialog; the dialog becomes accepted only by a press of a non-modifier    *)
(* key and then holds a key sequence; the row's key text changes only with  *)
(* a successful update_shortcut of its action to that key, and Cancel or a  *)
(* failed update leaves the manager's registry and the row's texts as they  *)
(* were.                                                                    *)
C21_KeyCapture ==
    [][ /\ (capture.state = "open" /\ capture'.evt.kind = "keyPressEvent"
              /\ capture'.evt.key \in MODIFIER_KEYS)
            => (capture'.new_key = capture.new_key /\ capture'.state = "open")
        /\ (capture.state # "accepted" /\ capture'.state = "accepted")
            => /\ capture'.evt.kind = "keyPressEvent"
               /\ capture'.evt.key \notin MODIFIER_KEYS
               /\ capture'.new_key \in KeySequences
        /\ (row.shown /\ row'.did # "load" /\ row'.le_key # row.le_key)
            => /\ row'.did = "updated"
               /\ call' = Call("update_shortcut", row.le_act, row'.le_key,
                               "none", None)
               /\ row.le_act \in DOMAIN shortcuts'
               /\ shortcuts'[row.le_act].key_sequence = row'.le_key
        /\ (row.did = "exec" /\ row'.did \in {"cancelled", "error"})
            => /\ shortcuts' = shortcuts
               /\ objects' = objects
               /\ row'.le_key = row.le_key
               /\ row'.le_act = row.le_act ]_vars

\* the row shows a newly captured key after a successful update
C21_Witness ==
    /\ row.did = "updated"
    /\ capture.state = "accepted"
    /\ row.le_key = capture.new_key
    /\ row.le_key # capture.current_key

\* ===== properties of ColumnBrowser (SpecBrowser) ===========================
\* the keys of a dict
KeySet(d) == { d[p].k : p \in 1..Len(d) }

\* the value d holds for k, "" when k is no key of d
ValueOf(d, k) ==
    IF k \in KeySet(d) THEN d[CHOOSE p \in 1..Len(d) : d[p].k = k].v ELSE ""

\* the token keys are the column positions and every column knows its own
BrowserInv(d, cols) ==
    /\ KeySet(d) = 0..(Len(cols) - 1)
    /\ \A p \in 1..Len(cols) : cols[p].index = p - 1

\* the step is no column_listener call of a column that was removed
FromExistingColumn ==
    browserCall'.op = "column_listener"
        => browserCall'.index \in 0..(Len(columns) - 1)

(* C22: the constructed browser has token keys {0, ..., len(columns) - 1}   *)
(* and every column's index is its position, and every method call keeps    *)
(* that so, column_listener being called by a column of self.columns; a     *)
(* token becomes non-empty only by column_listener for its own column.      *)
C22_TokensFollowColumns ==
    /\ BrowserInv(tokens, columns)
    /\ \A p \in 1..Len(tokens) : tokens[p].v = ""
    /\ [][ (BrowserInv(tokens, columns) /\ FromExistingColumn)
            => /\ BrowserInv(tokens', columns')
               /\ \A k \in 0..(MaxColumns - 1) :
                     (ValueOf(tokens', k) # "" /\ ValueOf(tokens', k) # ValueOf(tokens, k))
                        => browserCall' = BrowserCall("column_listener", k,
                                                      ValueOf(tokens', k))
               /\ Len(columns') > Len(columns)
                     => ValueOf(tokens', Len(columns)) = "" ]_vars

\* columns were removed, one was added again and an item was selected in it
C22_Witness ==
    /\ BrowserInv(tokens, columns)
    /\ Len(hlayout_columns) > Len(columns)
    /\ Len(columns) >= 2
    /\ columns[Len(columns)].id > Len(columns)
    /\ ValueOf(tokens, Len(columns) - 1) # ""

(* C23: remove_columns_to_right_of(index), 0 <= index < len(columns), on a  *)
(* browser whose layout shows self.columns leaves self.columns and the      *)
(* layout with exactly the columns at positions 0..index and tokens with    *)
(* exactly the keys 0..index, those columns and tokens unchanged.           *)
C23_RemoveColumns ==
    [][ (/\ browserCall'.op = "remove_columns_to_right_of"
         /\ browserCall'.index \in 0..(Len(columns) - 1)
         /\ BrowserInv(tokens, columns)
         /\ hlayout_columns = columns)
        => LET index == browserCall'.index
           IN  /\ columns' = SubSeq(columns, 1, index + 1)
               /\ hlayout_columns' = SubSeq(columns, 1, index + 1)
               /\ KeySet(tokens') = 0..index
               /\ \A k \in 0..index : ValueOf(tokens', k) = ValueOf(tokens, k) ]_vars

\* ===== properties of CodeEditor (SpecKeys, SpecIndent) =====================
\* a key press has been handled
KeyPressed == keyEvt.op \in KeyCodes

\* the first and the last block the selection the key press found touches;
\* without selection both are the cursor's block
TouchedFirst == selectionStart(keyEvt.cursor0).block
TouchedLast == selectionEnd(keyEvt.cursor0).block

(* C24: after Tab or Shift+Tab the emitted range is the lines from the      *)
(* first to the last line the selection touched, only lines the selection   *)
(* touched (the cursor's line without selection) have changed, and Tab      *)
(* without multi-line selection went to the default handler, indented not   *)
(* emitted.                                                                 *)
C24_TabTouchesSelection ==
    KeyPressed
    => /\ keyEvt.emitted # "none"
            => (keyEvt.first = TouchedFirst /\ keyEvt.last = TouchedLast)
       /\ Len(document) = Len(keyEvt.before)
       /\ \A b \in 1..Len(keyEvt.before) :
             (b - 1) \notin TouchedFirst..TouchedLast
                => document[b] = keyEvt.before[b]
       /\ (keyEvt.op = "Key_Tab" /\ TouchedFirst = TouchedLast)
            => (keyEvt.default /\ keyEvt.emitted = "none")

\* block b (from 0) of document d shows one of the lines first..last
InRange(d, b, first, last) ==
    \E line \in first..last :
        /\ firstLineNumber(d, b) <= line
        /\ line < firstLineNumber(d, b) + lineCount(d[b + 1])

(* C28: unindent(lines) after indent(lines) leaves every line's text as it  *)
(* was before the indent; unindent leaves a line that does not start with   *)
(* a tab unchanged; neither changes the number of lines or the text of a    *)
(* block none of whose lines is in the range.                               *)
C28_IndentRoundTrip ==
    /\ (/\ keyEvt.op = "unindent"
        /\ keyEvt.prev.op = "indent"
        /\ keyEvt.prev.first = keyEvt.first
        /\ keyEvt.prev.last = keyEvt.last)
       => document = keyEvt.prev.before
    /\ keyEvt.op = "unindent"
       => \A b \in 1..Len(keyEvt.before) :
             (keyEvt.before[b] = <<>> \/ keyEvt.before[b][1] # Tab)
                => document[b] = keyEvt.before[b]
    /\ keyEvt.op \in {"indent", "unindent"}
       => /\ Len(document) = Len(keyEvt.before)
          /\ \A b \in 1..Len(keyEvt.before) :
                ~InRange(keyEvt.before, b - 1, keyEvt.first, keyEvt.last)
                   => document[b] = keyEvt.before[b]

\* ===== properties of the usage bars (SpecBar) ==============================
\* h / 2 truncated toward zero: the integer n of the same sign with
\* |n| <= |h / 2| < |n| + 1
Truncated(h) ==
    CHOOSE n \in (0 - 200 - MaxHalves)..(200 + MaxHalves) :
        /\ 2 * Abs(n) <= Abs(h)
        /\ Abs(h) < 2 * Abs(n) + 2
        /\ (n >= 0) = (h >= 0 \/ Abs(h) < 2)

\* n clamped to [0, 100]
Clamped(n) == IF n < 0 THEN 0 ELSE IF n > 100 THEN 100 ELSE n

(* C25: the stored percentage is an integer in [0, 100]; it is 0 before the *)
(* first call; after set_percentage(p) it is p truncated toward zero and    *)
(* clamped; after the first refresh of a CPU bar it is 0.                   *)
C25_PercentageInRange ==
    /\ bar.percentage \in 0..100
    /\ barCall.op = "__init__" => bar.percentage = 0
    /\ barCall.op = "set_percentage"
          => bar.percentage = Clamped(Truncated(barCall.halves))
    /\ (bar.class = "CPUUsageBar" /\ barCall.op = "refresh" /\ barCall.nth = 1)
          => bar.percentage = 0

\* set_percentage(100.5) after a refresh
C25_Witness ==
    /\ barCall = BarCall("set_percentage", 201, 2)
    /\ bar.percentage = 100
    /\ bar.last_idle_time # 0

\* ===== properties of a run's segment (SpecSeg) =============================
\* the run of the painted block lies inside its text
RunInsideText ==
    /\ content.text_len >= 1
    /\ Len(content.runs) = 1
    /\ content.runs[1].start >= 0
    /\ content.runs[1].length >= 1
    /\ content.runs[1].start + content.runs[1].length <= content.text_len

\* floor(start * inner_width / L) for the run of the painted block
ExactOffset == (content.runs[1].start * inner_w) \div content.text_len

(* C26 as stated: for a run inside a text of length L >= 1 the painted      *)
(* segment has margin <= x, x + w <= margin + inner_width, w >= 1 and       *)
(* x = margin + floor(start * inner_width / L), for every inner_width >= 1. *)
C26_SegmentInside_AsStated ==
    (Painted /\ RunInsideText) =>
        \A r \in DOMAIN drawCmds.rows :
            LET segs == drawCmds.rows[r].segs
            IN  /\ Len(segs) = 1
                /\ margin <= segs[1].x
                /\ segs[1].x + segs[1].w <= margin + inner_w
                /\ segs[1].w >= 1
                /\ segs[1].x = margin + ExactOffset

(* C26: for a run inside a text of length L >= 1 the painted segment has    *)
(* margin <= x, x + w <= margin + inner_width and w >= 1, for every         *)
(* inner_width >= 1; x - margin is floor(start * inner_width / L) or one    *)
(* less, and it is the floor whenever start * inner_width / L is no         *)
(* integer.                                                                 *)
C26_SegmentInside ==
    (Painted /\ RunInsideText) =>
        \A r \in DOMAIN drawCmds.rows :
            LET segs == drawCmds.rows[r].segs
            IN  /\ Len(segs) = 1
                /\ margin <= segs[1].x
                /\ segs[1].x + segs[1].w <= margin + inner_w
                /\ segs[1].w >= 1
                /\ segs[1].x - margin \in {ExactOffset - 1, ExactOffset}
                /\ (content.runs[1].start * inner_w) % content.text_len # 0 =>
                      segs[1].x - margin = ExactOffset

\* C26 witness: a painted segment that starts one pixel left of the floor and
\* ends inside the inner area
C26_Witness ==
    /\ Painted
    /\ RunInsideText
    /\ Len(drawCmds.rows) = 1
    /\ drawCmds.rows[1].segs[1].x = margin + ExactOffset - 1
    /\ drawCmds.rows[1].segs[1].x >= margin
    /\ drawCmds.rows[1].segs[1].w > 1
    /\ width >= MinimumWidth

====
